---- MODULE Spec2Model ----
(***************************************************************************)
(* The display manager of the Plex radio client (src/display_manager.py):  *)
(* the DisplayManager, its screens and the driver it writes to, run by the *)
(* threads of src/radio_client.py.                                         *)
(*                                                                         *)
(* Time is time.time() counted in ticks of 0.1 s: 0.1 s is the minimum     *)
(* screen-change interval, 2.0 s (20 ticks) the default duration of a      *)
(* timed screen.  Sleeps shorter than a tick (0.02 s, 0.05 s) are not       *)
(* modelled.  A text is a sequence of one-character strings.               *)
(***************************************************************************)
EXTENDS Integers, Sequences, FiniteSets, TLC

\* ------------------------------------------------------------------ bounds
MaxTime == 2          \* horizon of the concurrent specifications
MaxTimeSeq == 24      \* horizon of the sequential specification
StartTime == 1        \* time.time() when the manager is constructed
ShortDuration == 1    \* display_duration of the timed screen of the concurrent ones
MaxCalls == 3         \* calls made to the physical driver
MaxTimeMarquee == 150 \* horizon of the banner marquee's sessions
MaxTimeSong == 100    \* horizon of the song marquee's sessions
Pause == 2            \* the caller's pause between two calls of a loop
MaxTimePersist == 7   \* horizon of the specification of the screens without expiry
MaxTimeShow == 4      \* horizon of the specification of the show_screen calls
ClockStart == 10      \* time.time() in milliseconds when the driver is constructed
TimeStep == 5         \* the milliseconds that pass in one step of the driver's clock
MaxClock == 60        \* the driver's calls begin and its clock steps up to this time, in milliseconds
MaxFileLen == 3       \* characters of a persistence file
NumChannels == 2      \* channels the server reports
NumSongs == 2         \* songs of a channel
BootVolume == 75      \* the system's volume, in percent, when the program starts
VolumeSteps == 1      \* steps of 5% the volume moves away from BootVolume
MaxTimeClient == 2    \* callbacks begin before this time in the specifications of the client
MaxTimeStartup == 60  \* horizon of the specification of the start of the program
MaxTimeLocks == 2     \* show_screen calls begin before this time in the specification of the locks
MaxTimeRadio == 33    \* horizon of the sessions of the radio going on and off
MaxTimeTeardown == 10  \* horizon of the specification of the teardown

\* ------------------------------------------------------- program constants
Width == 16
Height == 2
MinScreenChangeInterval == 1
ScrollSpeed == 4
PreScrollDelay == 20
PostScrollDelay == 20
DefaultDuration == 20
ErrorDuration == 30
StartupVolume == 15
StartupSleep == 50

None == -1            \* a start_time that is None

Min(a, b) == IF a < b THEN a ELSE b
Max(a, b) == IF a > b THEN a ELSE b

\* -------------------------------------------------------------------- text
Whitespace == {" ", "\t", "\n"}

Spaces(n) == [i \in 1..n |-> " "]

\* s[a:b] of Python, 0 <= a
Slice(s, a, b) == SubSeq(s, a + 1, Min(b, Len(s)))

RECURSIVE LStrip(_)
LStrip(s) == IF s # <<>> /\ Head(s) \in Whitespace THEN LStrip(Tail(s)) ELSE s

RECURSIVE RStrip(_)
RStrip(s) ==
    IF s # <<>> /\ s[Len(s)] \in Whitespace
    THEN RStrip(SubSeq(s, 1, Len(s) - 1))
    ELSE s

\* str.strip()
Strip(s) == RStrip(LStrip(s))

\* str.center(w): CPython puts marg/2 + (marg & w & 1) fill characters left
Center(s, w) ==
    IF Len(s) >= w THEN s
    ELSE LET marg == w - Len(s)
             left == (marg \div 2) + (IF marg % 2 = 1 /\ w % 2 = 1 THEN 1 ELSE 0)
         IN  Spaces(left) \o s \o Spaces(marg - left)

\* str.ljust(w)
Ljust(s, w) == IF Len(s) >= w THEN s ELSE s \o Spaces(w - Len(s))

Digit(n) == <<"0", "1", "2", "3", "4", "5", "6", "7", "8", "9">>[n + 1]

TwoDigits(n) == <<Digit((n \div 10) % 10), Digit(n % 10)>>

\* datetime.now().strftime('%H:%M:%S') at tick t (ten ticks a second)
ClockText(t) ==
    LET secs == t \div 10
    IN  TwoDigits((secs \div 3600) % 24) \o <<":">> \o
        TwoDigits((secs \div 60) % 60) \o <<":">> \o TwoDigits(secs % 60)

TxtVolume == <<"V", "o", "l", "u", "m", "e">>
TxtChannel == <<"C", "h", "a", "n", "n", "e", "l">>
TxtError == <<"E", "r", "r", "o", "r", ":">>
TxtGoodbye == <<"G", "o", "o", "d", "b", "y", "e", "!">>
TxtNA == <<"N", "/", "A">>
TxtUnknown == <<"U", "n", "k", "n", "o", "w", "n">>
TxtRadio == <<"R", "a", "d", "i", "o">>
TxtLoading == <<"L", "o", "a", "d", "i", "n", "g", ".", ".", ".">>
TxtTrue == <<"T", "r", "u", "e">>
TxtFalse == <<"F", "a", "l", "s", "e">>
TxtJazzFM == <<"J", "a", "z", "z", " ", "F", "M">>
TxtNoChannels == <<"N", "o", " ", "C", "h", "a", "n", "n", "e", "l", "s">>
Txt75 == <<"7", "5", "%">>
TxtOffUnit == <<"R", "a", "d", "i", "o", " ", "O", "f", "f", " ", " ", "-", " ", " ">>
\* "Radio Off  -  Radio Off  -  Radio Off  -  "
TxtOffMessage == TxtOffUnit \o TxtOffUnit \o TxtOffUnit

\* ---------------------------------------------------------- context values
\* A value of the context dictionary: a str or a bool.
Str(s) == [s |-> s, b |-> FALSE, isstr |-> TRUE]
Bool(b) == [s |-> <<>>, b |-> b, isstr |-> FALSE]

\* str(value)
ToStr(v) == IF v.isstr THEN v.s ELSE IF v.b THEN TxtTrue ELSE TxtFalse

\* the truth value of a context value
Truthy(v) == IF v.isstr THEN v.s # <<>> ELSE v.b

\* context.get(key, default)
Get(ctx, key, default) == IF key \in DOMAIN ctx THEN ctx[key] ELSE default

\* context[key] = value
Put(ctx, key, value) == (key :> value) @@ ctx

\* A swap that leaves the context's record of the lines as it is (told from
\* the code by C24).
ResetTracking_Keep(ctx) == ctx

\* self.context['last_line1'] = ""; self.context['last_line2'] = ""
ResetTracking(ctx) == Put(Put(ctx, "last_line1", Str(<<>>)), "last_line2", Str(<<>>))

\* ------------------------------------------------------------- the marquee
\* The marquee state of one text line: m = [offset, last, timer, phase].
\* Returns [content, m]: the visible window and the state after the call.
\* A marquee that never sees its text change (told from the code by C16).
TextChanged_Never(text, last) == FALSE

\* if text != self.last_displayed_song
TextChanged(text, last) == text # last

\* A marquee that scrolls one step too few (told from the code by C15).
MaxScroll_Short(text_length, width) == text_length - width - 1

\* A marquee whose last offset lies one past the last full window (told from
\* the code by C28).
MaxScroll_Long(text_length, width) == text_length - width + 1

\* max_scroll_value = text_length - width
MaxScroll(text_length, width) == text_length - width

\* A marquee that scrolls two characters at a time (told from the code by C14).
NextOffset_Two(offset) == offset + 2

\* self.marquee_scroll_offset += 1
NextOffset(offset) == offset + 1

\* A marquee that goes from the initial hold to the final one (told from the
\* code by C17).
NextPhase_SkipsScrolling(phase) ==
    CASE phase = "initial_delay" -> "final_delay"
      [] phase = "scrolling" -> "final_delay"
      [] phase = "final_delay" -> "initial_delay"

\* self.scroll_phase = ... in each branch of the marquee
NextPhase(phase) ==
    CASE phase = "initial_delay" -> "scrolling"
      [] phase = "scrolling" -> "final_delay"
      [] phase = "final_delay" -> "initial_delay"

\* A short text that is left-justified (told from the code by C13).
Fitting_Ljust(text, width) == text \o Spaces(width - Len(text))

\* return text.center(width)
Fitting(text, width) == Center(text, width)

MarqueeStep(m, text, width, t) ==
    LET r == IF TextChanged(text, m.last)
             THEN [offset |-> 0, last |-> text, timer |-> t, phase |-> "initial_delay"]
             ELSE m
        text_length == Len(text)
        max_scroll_value == MaxScroll(text_length, width)
    IN  IF text_length <= width
        THEN [content |-> Fitting(text, width), m |-> r]
        ELSE CASE r.phase = "initial_delay" ->
                    [content |-> Slice(text, 0, width),
                     m |-> IF t - r.timer >= PreScrollDelay
                           THEN [r EXCEPT !.phase = NextPhase(r.phase), !.timer = t,
                                          !.offset = 0]
                           ELSE r]
               [] r.phase = "scrolling" ->
                    LET a == IF t - r.timer >= ScrollSpeed
                             THEN [r EXCEPT !.offset = NextOffset(r.offset), !.timer = t]
                             ELSE r
                        b == IF a.offset >= max_scroll_value
                             THEN [a EXCEPT !.phase = NextPhase(a.phase), !.timer = t,
                                            !.offset = max_scroll_value]
                             ELSE a
                    IN  [content |-> Slice(text, b.offset, b.offset + width), m |-> b]
               [] r.phase = "final_delay" ->
                    [content |-> Slice(text, Max(0, text_length - width), text_length),
                     m |-> IF t - r.timer >= PostScrollDelay
                           THEN [r EXCEPT !.phase = NextPhase(r.phase), !.timer = t,
                                          !.offset = 0]
                           ELSE r]

\* RadioDefaultScreen.__init__ at time t
RadioDefaultScreen(t) ==
    [marquee_scroll_offset |-> 0, last_displayed_song |-> <<>>,
     scroll_state_timer |-> t, scroll_phase |-> "initial_delay",
     off_marquee_scroll_offset |-> 0, off_last_displayed_text |-> <<>>,
     off_scroll_state_timer |-> t, off_scroll_phase |-> "initial_delay"]

\* RadioDefaultScreen._handle_marquee_text: [content, d]
handle_marquee_text(d, text, width, t) ==
    LET r == MarqueeStep([offset |-> d.marquee_scroll_offset,
                          last |-> d.last_displayed_song,
                          timer |-> d.scroll_state_timer,
                          phase |-> d.scroll_phase], text, width, t)
    IN  [content |-> r.content,
         d |-> [d EXCEPT !.marquee_scroll_offset = r.m.offset,
                         !.last_displayed_song = r.m.last,
                         !.scroll_state_timer = r.m.timer,
                         !.scroll_phase = r.m.phase]]

\* A banner that runs through the song marquee's state (told from the code
\* by C29).
handle_marquee_off_text_Shared(d, text, width, t) ==
    handle_marquee_text(d, text, width, t)

\* RadioDefaultScreen._handle_marquee_off_text: [content, d]
handle_marquee_off_text(d, text, width, t) ==
    LET r == MarqueeStep([offset |-> d.off_marquee_scroll_offset,
                          last |-> d.off_last_displayed_text,
                          timer |-> d.off_scroll_state_timer,
                          phase |-> d.off_scroll_phase], text, width, t)
    IN  [content |-> r.content,
         d |-> [d EXCEPT !.off_marquee_scroll_offset = r.m.offset,
                         !.off_last_displayed_text = r.m.last,
                         !.off_scroll_state_timer = r.m.timer,
                         !.off_scroll_phase = r.m.phase]]

\* ------------------------------------------------------------- the screens
\* What a render does, up to its driver calls: calls is the sequence of
\* driver.display_text(text, line) calls it makes, in order; ret is its return
\* value; st is the screen's start_time and d the default screen's marquee
\* state after the call.  tracks says whether the render records a written
\* line in the context (last_line1, last_line2), as the default screen does.
Call(text, line) == [text |-> text, line |-> line]

\* A default screen that finds every line changed (told from the code by C23).
LineChanged_Always(ctx, key, content) == TRUE

\* context.get('last_line1', '') != line1_content
LineChanged(ctx, key, content) == Get(ctx, key, Str(<<>>)) # Str(content)

\* RadioDefaultScreen.render
RadioDefaultScreen_render(d, ctx, t) ==
    LET is_playing == Truthy(Get(ctx, "is_playing", Bool(FALSE)))
        channel_name ==
            Slice(Strip(ToStr(Get(ctx, "channel_name", Str(TxtRadio)))), 0, Width)
        song_value == Get(ctx, "current_song", Str(TxtLoading))
        current_song == IF Truthy(song_value) THEN Strip(ToStr(song_value)) ELSE TxtLoading
        mq == IF is_playing
              THEN handle_marquee_text(d, current_song, Width, t)
              ELSE handle_marquee_off_text(d, TxtOffMessage, Width, t)
        line1 == IF is_playing THEN Center(channel_name, Width)
                 ELSE Center(ClockText(t), Width)
        line1_content == Slice(Ljust(line1, Width), 0, Width)
        line2_content == Slice(Ljust(mq.content, Width), 0, Width)
        force == Truthy(Get(ctx, "force_update", Bool(FALSE)))
        c1 == IF force \/ LineChanged(ctx, "last_line1", line1_content)
              THEN <<Call(line1_content, 1)>> ELSE <<>>
        c2 == IF force \/ LineChanged(ctx, "last_line2", line2_content)
              THEN <<Call(line2_content, 2)>> ELSE <<>>
    IN  [calls |-> c1 \o c2, ret |-> TRUE, st |-> None, d |-> mq.d, tracks |-> TRUE]

\* The expiry test of the timed screens:
\* if self.start_time is None: self.start_time = time.time()  ...
\* return (time.time() - self.start_time) < self.display_duration
StartOf(scr, t) == IF scr.start_time = None THEN t ELSE scr.start_time

\* Expiry tests that are late by one tick (told from the code by C3) and
\* that never expire (told from it by C5).
NotExpired_Inclusive(scr, t) == (t - StartOf(scr, t)) <= scr.display_duration

NotExpired_Never(scr, t) == TRUE

NotExpired(scr, t) == (t - StartOf(scr, t)) < scr.display_duration

\* VolumeScreen.render
VolumeScreen_render(scr, d, ctx, t) ==
    LET line1_content == Slice(Ljust(Center(TxtVolume, Width), Width), 0, Width)
        volume_text == Strip(ToStr(Get(ctx, "volume_text", Str(TxtNA))))
        line2_content == Slice(Ljust(Center(volume_text, Width), Width), 0, Width)
    IN  [calls |-> <<Call(line1_content, 1), Call(line2_content, 2)>>,
         ret |-> NotExpired(scr, t), st |-> StartOf(scr, t), d |-> d, tracks |-> FALSE]

\* A channel screen that ignores the context (told from the code by C4).
ChannelScreen_render_NoContext(scr, d, ctx, t) ==
    [calls |-> <<Call(Center(TxtChannel, Width), 1), Call(Center(TxtUnknown, Width), 2)>>,
     ret |-> (t - StartOf(scr, t)) < scr.display_duration, st |-> StartOf(scr, t),
     d |-> d, tracks |-> FALSE]

\* ChannelScreen.render
ChannelScreen_render(scr, d, ctx, t) ==
    LET line1_content == Slice(Ljust(Center(TxtChannel, Width), Width), 0, Width)
        channel_text == Strip(ToStr(Get(ctx, "channel_text", Str(TxtUnknown))))
        line2_content ==
            Slice(Ljust(Center(Slice(channel_text, 0, Width), Width), Width), 0, Width)
    IN  [calls |-> <<Call(line1_content, 1), Call(line2_content, 2)>>,
         ret |-> NotExpired(scr, t), st |-> StartOf(scr, t), d |-> d, tracks |-> FALSE]

\* ErrorScreen.render
\* An error screen that forgets it is persistent (told from the code by C18).
Persists_Never(scr) == FALSE

\* if self.persistent: return True
Persists(scr) == scr.persistent

ErrorScreen_render(scr, d, ctx, t) ==
    LET line1_content == Center(TxtError, Width)
        line2_content == Center(Slice(scr.error_message, 0, Width), Width)
    IN  [calls |-> <<Call(Ljust(line1_content, Width), 1),
                     Call(Ljust(line2_content, Width), 2)>>,
         ret |-> IF Persists(scr) THEN TRUE ELSE NotExpired(scr, t),
         st |-> StartOf(scr, t), d |-> d, tracks |-> FALSE]

\* GoodbyeScreen.render
GoodbyeScreen_render(scr, d, ctx, t) ==
    LET line1_content == Center(TxtGoodbye, Width)
        line2_content == Center(<<>>, Width)
    IN  [calls |-> <<Call(Ljust(line1_content, Width), 1),
                     Call(Ljust(line2_content, Width), 2)>>,
         ret |-> NotExpired(scr, t), st |-> StartOf(scr, t), d |-> d, tracks |-> FALSE]

\* The screen classes' constructors (name, display_duration, start_time = None)
VolumeScreen(display_duration) ==
    [name |-> "volume", display_duration |-> display_duration, start_time |-> None,
     persistent |-> FALSE, error_message |-> <<>>]

ChannelScreen(display_duration) ==
    [name |-> "channel", display_duration |-> display_duration, start_time |-> None,
     persistent |-> FALSE, error_message |-> <<>>]

ErrorScreen(error_message, display_duration, persistent) ==
    [name |-> "error", display_duration |-> display_duration, start_time |-> None,
     persistent |-> persistent, error_message |-> error_message]

GoodbyeScreen(display_duration) ==
    [name |-> "goodbye", display_duration |-> display_duration, start_time |-> None,
     persistent |-> FALSE, error_message |-> <<>>]

\* A RadioDefaultScreen the application makes at time t and installs with
\* show_screen: it has no start_time and no display_duration, and its own
\* marquee state d.
RadioScreen(t) ==
    [name |-> "radio_default", display_duration |-> None, start_time |-> None,
     persistent |-> FALSE, error_message |-> <<>>, d |-> RadioDefaultScreen(t)]

\* The render r of an installed RadioDefaultScreen: it works on the screen's
\* own marquee state (own) and leaves the manager's default screen d alone.
OwnRender(r, d) ==
    [calls |-> r.calls, ret |-> r.ret, st |-> None, d |-> d,
     tracks |-> r.tracks, own |-> r.d]

\* screen.render(driver, context), by the class of the screen; own is the
\* marquee state of an installed RadioDefaultScreen after its render.
Render(scr, d, ctx, t) ==
    CASE scr.name = "radio_default" ->
            OwnRender(RadioDefaultScreen_render(scr.d, ctx, t), d)
      [] scr.name = "volume" -> VolumeScreen_render(scr, d, ctx, t)
      [] scr.name = "channel" -> ChannelScreen_render(scr, d, ctx, t)
      [] scr.name = "error" -> ErrorScreen_render(scr, d, ctx, t)
      [] scr.name = "goodbye" -> GoodbyeScreen_render(scr, d, ctx, t)

\* ------------------------------------------------------------- the driver
\* MockDisplayDriver: lines holds the text of each display line.
BlankLines == [i \in 1..Height |-> <<>>]

\* 1 <= line <= self.height, the test of both drivers
ValidLine(line) == 1 <= line /\ line <= Height

\* A mock driver that wraps a line number round into the display (told from
\* the code by C26).
display_text_Wraps(ls, text, line) ==
    [ls EXCEPT ![((line - 1) % Height) + 1] = text]

\* MockDisplayDriver.display_text(text, line)
display_text(ls, text, line) ==
    IF ValidLine(line) THEN [ls EXCEPT ![line] = text] ELSE ls

\* The display after the first n calls of a render have reached the driver.
RECURSIVE Written(_, _, _)
Written(ls, calls, n) ==
    IF n = 0 THEN ls
    ELSE display_text(Written(ls, calls, n - 1), calls[n].text, calls[n].line)

\* The default screen's bookkeeping of the lines it wrote:
\* context['last_line1'] = line1_content after display_text(line1_content, 1).
\* A render that records its second line under the application's song key
\* (told from the code by C30).
TrackKey_Song(line) == IF line = 1 THEN "last_line1" ELSE "current_song"

\* context['last_line1'] = line1_content; context['last_line2'] = line2_content
TrackKey(line) == IF line = 1 THEN "last_line1" ELSE "last_line2"

RECURSIVE Tracked(_, _, _)
Tracked(ctx, calls, n) ==
    IF n = 0 THEN ctx
    ELSE Put(Tracked(ctx, calls, n - 1), TrackKey(calls[n].line),
             Str(calls[n].text))

\* ------------------------------------------------- the physical driver
\* The physical driver's texts are sequences of character codes (ord), so
\* that control and non-ASCII characters are told from printable ones. The
\* text argument of a call is a string or None.
Space == 32
NoText == [none |-> TRUE, s |-> <<>>]
Text(s) == [none |-> FALSE, s |-> s]

\* the keys of the replacements dictionary: \x00 \t \n \r \f \v \b
Replacements == {0, 9, 10, 13, 12, 11, 8}

\* if (32 <= ord_val <= 126)
Printable(c) == 32 <= c /\ c <= 126

\* A sanitizer that lets every character through (told from the code by C12).
sanitize_text_KeepsAll(text) == IF text.none THEN <<>> ELSE text.s

\* I2CLCDDriver._sanitize_text
sanitize_text(text) ==
    IF text.none \/ text.s = <<>> THEN <<>>
    ELSE LET replaced == [i \in 1..Len(text.s) |->
                             IF text.s[i] \in Replacements THEN Space ELSE text.s[i]]
         IN  [i \in 1..Len(replaced) |->
                 IF Printable(replaced[i]) THEN replaced[i] ELSE Space]

\* clean_text[:self.width].ljust(self.width)
CleanText(text) ==
    LET clean_text == sanitize_text(text)
        truncated == Slice(clean_text, 0, Width)
    IN  truncated \o [i \in 1..(Width - Len(truncated)) |-> Space]

\* " " * self.width
BlankLine == [i \in 1..Width |-> Space]

\* A comparison that never finds the line unchanged (told from the code by C11).
LineUnchanged_Never(current_lines, line, clean_text) == FALSE

\* line_index < len(self._current_lines) and
\* self._current_lines[line_index] == clean_text
LineUnchanged(current_lines, line, clean_text) ==
    line - 1 < Len(current_lines) /\ current_lines[line] = clean_text

\* I2CLCDDriver.__init__: _current_lines, and as history: the number of
\* calls made, the latest call, the strings that call handed to the hardware
\* and the string most recently handed to the hardware for each line.
I2CLCDDriver ==
    [current_lines |-> [i \in 1..Height |-> <<>>],
     n |-> 0,
     call |-> [op |-> "init", text |-> NoText, line |-> 0],
     sent |-> <<>>,
     last_sent |-> [i \in 1..Height |-> <<>>]]

\* The latest marquee call (history): which marquee, the text passed, the
\* window returned, a bit that every call flips, and, when the call came with
\* a new text, the phase and the offset it found.
NoReset == [phase |-> "none", offset |-> 0]
NoMarqueeCall ==
    [which |-> "none", text |-> <<>>, content |-> <<>>, flip |-> 0, reset |-> NoReset]

\* The time the latest installation took effect (history, kept by the
\* specifications whose properties read it).
NoInstall == [track |-> FALSE, at |-> None]

\* I2CLCDDriver.__init__, the timing control: the clock (time.time(), in
\* milliseconds), _last_operation_time, where the driver is in a call, and
\* (history) the time of the latest hardware operation, whether it raised,
\* and its distance from the one before it.
NoBus ==
    [clock |-> ClockStart, last_operation_time |-> 0, at |-> "idle",
     op_time |-> None, op_raised |-> FALSE, gap |-> None]

\* The background threads of the application, each at the top of its loop.
Loops == {"display", "playback"}
NoLoops == [l \in Loops |-> [at |-> "top", wake |-> None]]

\* The persistence file: missing, not readable, a directory, failing while
\* it is read, holding bytes that do not decode, or holding a text.
NoFile == [kind |-> "missing", text |-> <<>>]

\* A song the server reports: the channel it was asked for and which of the
\* channel's songs it is; NoSong is None.
NoSong == [channel |-> None, n |-> 0]

\* PlexRadioClient.__init__ before _load_last_channel(): no process, not
\* playing, no channels, channel 0; with (not fields of the object) the
\* persistence file, how the construction ended, where manage_playback and
\* the main thread's callback are, their locals, the system's volume, and
\* (history) the channel change_channel last set channel_has_changed for,
\* until the playback thread clears the flag, and what
\* check_ffplay_available() found.
PlexRadioClient(file) ==
    [file |-> file, load |-> "new", current_process |-> NoSong,
     is_playing |-> FALSE, last_song_title |-> NoSong,
     channel_has_changed |-> FALSE, channels |-> 0, current_channel |-> 0,
     playback |-> "top", channel_index |-> None, song_info |-> NoSong,
     main |-> "idle", direction |-> 0, volume |-> BootVolume,
     signalled |-> None, ffplay |-> "unchecked"]

NoRadio == PlexRadioClient(NoFile)

\* ------------------------------------------------------------ the manager
Threads == {"display", "main"}
ScreenIds == {"s1", "s2"}
NoScreen == "None"          \* current_screen = None
Default == "default"        \* the manager's default_screen

VARIABLES
    now,                              \* time.time()
    pc,                               \* where each thread is
    local,                            \* each thread's arguments and locals
    update_lock,                      \* _update_lock: its holder, or "free"
    screen_transition_in_progress,    \* _screen_transition_in_progress
    last_screen_change_time,          \* _last_screen_change_time
    current_screen,                   \* the active temporary screen
    screens,                          \* the screen objects the application made
    default_screen,                   \* the RadioDefaultScreen's marquee state
    context,                          \* the render context
    lines,                            \* the driver's display
    first_render,                     \* history: first render since the latest install
    expiry,                           \* history: the call that follows an expiry
    lcd,                              \* the I2CLCDDriver object
    bus,                              \* the I2CLCDDriver's timing and its hardware operations
    marquee,                          \* history: the latest marquee call
    installed,                        \* history: the latest installation
    shutdown_requested,               \* PlexRadioClient.shutdown_requested
    loops,                            \* where manage_display and manage_playback are
    radio                             \* the PlexRadioClient object and its callers

vars == <<now, pc, local, update_lock, screen_transition_in_progress,
          last_screen_change_time, current_screen, screens, default_screen,
          context, lines, first_render, expiry, lcd, bus, marquee, installed,
          shutdown_requested, loops, radio>>

NoLocal ==
    [screen |-> NoScreen, clear_first |-> FALSE, patch |-> <<>>, current_time |-> None,
     wake |-> None, screen_to_render |-> NoScreen, continue_display |-> TRUE]

\* DisplayManager.__init__
DisplayManagerInit ==
    /\ now = StartTime
    /\ pc = [t \in Threads |-> "idle"]
    /\ local = [t \in Threads |-> NoLocal]
    /\ update_lock = "free"
    /\ screen_transition_in_progress = FALSE
    /\ last_screen_change_time = 0
    /\ current_screen = NoScreen
    /\ default_screen = RadioDefaultScreen(StartTime)
    /\ context = ("last_line1" :> Str(<<>>)) @@ ("last_line2" :> Str(<<>>))
    /\ lines = BlankLines
    /\ first_render = [s \in ScreenIds |-> None]
    /\ expiry = [state |-> "idle", by |-> "main"]
    /\ lcd = I2CLCDDriver
    /\ bus = NoBus
    /\ marquee = NoMarqueeCall
    /\ shutdown_requested = FALSE
    /\ loops = NoLoops

\* The manager and a client constructed without a persistence file.
ManagerInit ==
    /\ DisplayManagerInit
    /\ radio = NoRadio

\* The application's screens: a timed VolumeScreen and the persistent
\* ErrorScreen of a missing player.
Init ==
    /\ ManagerInit
    /\ installed = NoInstall
    /\ screens = [s \in ScreenIds |->
                    IF s = "s1" THEN VolumeScreen(ShortDuration)
                    ELSE ErrorScreen(TxtNoChannels, ShortDuration, TRUE)]

\* ----------------------------------------------------- history bookkeeping
\* The first update_display() call begun after an expiry is the call the
\* expiry is followed by: it claims the pending expiry. A show_screen() in
\* between cancels that.
NoExpiry == [state |-> "idle", by |-> "main"]
ExpiryAtCall(t, op) ==
    CASE op = "show_screen" -> NoExpiry
      [] op = "update_display" /\ expiry.state = "pending" ->
            [state |-> "claimed", by |-> t]
      [] OTHER ->
            IF expiry.state = "claimed" /\ expiry.by = t THEN NoExpiry ELSE expiry

\* ------------------------------------------------------------- show_screen
\* A lock that excludes nobody (told from the code by C9).
LockFree_Always(t) == TRUE

\* with self._update_lock: a thread enters when no thread holds the lock
LockFree(t) == update_lock = "free"

\* An installation that keeps the start_time (told from the code by C6).
ResetStartTime_Keep(scr) == scr

\* if hasattr(screen, 'start_time'): screen.start_time = None
ResetStartTime(scr) == [scr EXCEPT !.start_time = None]

\* The call takes the lock and reads the time; it sleeps when the last
\* change is recent, else it sets _screen_transition_in_progress.
SS_Call(t, s, clear_first) ==
    /\ pc[t] = "idle"
    /\ LockFree(t)
    /\ update_lock' = t
    /\ LET throttle == now - last_screen_change_time < MinScreenChangeInterval
       IN  /\ pc' = [pc EXCEPT ![t] = IF throttle THEN "ss_sleep" ELSE "ss_install"]
           /\ screen_transition_in_progress' =
                  IF throttle THEN screen_transition_in_progress ELSE TRUE
           /\ local' = [local EXCEPT ![t] =
                          [NoLocal EXCEPT !.screen = s, !.clear_first = clear_first,
                                          !.current_time = now,
                                          !.wake = IF throttle
                                                   THEN now + MinScreenChangeInterval
                                                   ELSE None]]
    /\ expiry' = ExpiryAtCall(t, "show_screen")
    /\ UNCHANGED <<shutdown_requested, lcd, bus, marquee, installed, now, last_screen_change_time, current_screen, screens,
                   default_screen, context, lines, first_render>>

SS_Enter(t, s, clear_first) == SS_Call(t, s, clear_first) /\ UNCHANGED <<loops, radio>>

\* time.sleep(self._min_screen_change_interval) returns;
\* self._screen_transition_in_progress = True
SS_Wake(t) ==
    /\ pc[t] = "ss_sleep"
    /\ now >= local[t].wake
    /\ screen_transition_in_progress' = TRUE
    /\ pc' = [pc EXCEPT ![t] = "ss_install"]
    /\ UNCHANGED <<loops, radio, shutdown_requested, lcd, bus, marquee, installed, now, local, update_lock, last_screen_change_time, current_screen,
                   screens, default_screen, context, lines, first_render,
                   expiry>>

\* The clear, the installation and the resets, then the lock is released.
SS_Install(t) ==
    /\ pc[t] = "ss_install"
    /\ LET s == local[t].screen
           cf == local[t].clear_first
           c1 == IF cf THEN Put(context, "force_update", Bool(TRUE)) ELSE context
       IN  /\ lines' = IF cf THEN BlankLines ELSE lines
           /\ current_screen' = s
           /\ screens' = [screens EXCEPT ![s] = ResetStartTime(screens[s])]
           /\ context' = ResetTracking(c1)
           /\ last_screen_change_time' = local[t].current_time
           /\ first_render' = [first_render EXCEPT ![s] = None]
    /\ screen_transition_in_progress' = FALSE
    /\ update_lock' = "free"
    /\ pc' = [pc EXCEPT ![t] = "idle"]
    /\ local' = [local EXCEPT ![t] = NoLocal]
    /\ installed' = IF installed.track THEN [installed EXCEPT !.at = now] ELSE installed
    /\ UNCHANGED <<loops, radio, shutdown_requested, lcd, bus, marquee, now, default_screen, expiry>>

\* self.driver.clear() raises: show_screen has no handler, the exception
\* leaves the with block and reaches the caller.
SS_ClearRaises(t) ==
    /\ pc[t] = "ss_install"
    /\ local[t].clear_first
    /\ update_lock' = "free"
    /\ pc' = [pc EXCEPT ![t] = "ss_raised"]
    /\ UNCHANGED <<loops, radio, shutdown_requested, lcd, bus, marquee, installed, now, local, screen_transition_in_progress, last_screen_change_time,
                   current_screen, screens, default_screen, context, lines,
                   first_render, expiry>>

\* ---------------------------------------------------------- update_context
\* A merge that does not strip (told from the code by C10).
Sanitize_Raw(value) == value

\* if isinstance(value, str): kwargs[key] = str(value).strip()
Sanitize(value) == IF value.isstr THEN Str(Strip(value.s)) ELSE value

\* self.context.update(kwargs), the string values stripped
Merge(ctx, kwargs) == [k \in DOMAIN kwargs |-> Sanitize(kwargs[k])] @@ ctx

\* update_context(**kwargs) takes the lock; where the caller is in its own
\* code is left to the caller.
UC_Call(t, kwargs) ==
    /\ pc[t] = "idle"
    /\ LockFree(t)
    /\ update_lock' = t
    /\ pc' = [pc EXCEPT ![t] = "uc_merge"]
    /\ local' = [local EXCEPT ![t] = [NoLocal EXCEPT !.patch = kwargs]]
    /\ expiry' = ExpiryAtCall(t, "update_context")
    /\ UNCHANGED <<shutdown_requested, lcd, bus, marquee, installed, now, screen_transition_in_progress, last_screen_change_time,
                   current_screen, screens, default_screen, context, lines,
                   first_render>>

UC_Enter(t, kwargs) == UC_Call(t, kwargs) /\ UNCHANGED <<loops, radio>>

UC_Merge(t) ==
    /\ pc[t] = "uc_merge"
    /\ context' = Merge(context, local[t].patch)
    /\ update_lock' = "free"
    /\ pc' = [pc EXCEPT ![t] = "idle"]
    /\ local' = [local EXCEPT ![t] = NoLocal]
    /\ UNCHANGED <<loops, radio, shutdown_requested, lcd, bus, marquee, installed, now, screen_transition_in_progress, last_screen_change_time,
                   current_screen, screens, default_screen, lines, first_render, expiry>>

\* ---------------------------------------------------------- update_display
\* A pick that ignores the slot (told from the code by C1).
PickScreen_Default(cur) == Default

\* screen_to_render = self.current_screen if self.current_screen else self.default_screen
PickScreen(cur) == IF cur # NoScreen THEN cur ELSE Default

\* A reaction that keeps the slot (told from the code by C2).
ReactSlot_Keep(cur, continue_display) == cur

\* if self.current_screen and not continue_display: self.current_screen = None
ReactSlot(cur, continue_display) ==
    IF cur # NoScreen /\ ~continue_display THEN NoScreen ELSE cur

\* A handler whose failed recovery reaches the caller (told from the code by C7).
RecoveryOutcome_Propagates(clear_raised) == IF clear_raised THEN "ud_raised" ELSE "idle"

\* Where update_display() goes after its except handler ran: the recovery
\* clear is itself wrapped in try/except: pass, so the call returns ("idle")
\* and no exception reaches the caller ("ud_raised").
RecoveryOutcome(clear_raised) == "idle"

\* if self._screen_transition_in_progress: return
UD_SkipCall(t) ==
    /\ pc[t] = "idle"
    /\ screen_transition_in_progress
    /\ pc' = [pc EXCEPT ![t] = "ud_return"]
    /\ expiry' = ExpiryAtCall(t, "update_display")
    /\ UNCHANGED <<shutdown_requested, lcd, bus, marquee, installed, now, local, update_lock, screen_transition_in_progress,
                   last_screen_change_time, current_screen, screens, default_screen,
                   context, lines, first_render>>

UD_Skip(t) == UD_SkipCall(t) /\ UNCHANGED <<loops, radio>>

\* return
UD_Return(t) ==
    /\ pc[t] = "ud_return"
    /\ pc' = [pc EXCEPT ![t] = "idle"]
    /\ UNCHANGED <<loops, radio, shutdown_requested, lcd, bus, marquee, installed, now, local, update_lock, screen_transition_in_progress,
                   last_screen_change_time, current_screen, screens, default_screen,
                   context, lines, first_render, expiry>>

\* update_display() passes the test of the transition flag.
UD_Call(t) ==
    /\ pc[t] = "idle"
    /\ ~screen_transition_in_progress
    /\ pc' = [pc EXCEPT ![t] = "ud_acquire"]
    /\ expiry' = ExpiryAtCall(t, "update_display")
    /\ UNCHANGED <<shutdown_requested, lcd, bus, marquee, installed, now, local, update_lock, screen_transition_in_progress,
                   last_screen_change_time, current_screen, screens, default_screen,
                   context, lines, first_render>>

UD_Enter(t) == UD_Call(t) /\ UNCHANGED <<loops, radio>>

\* A frame that leaves the force_update flag as it finds it (told from the
\* code by C33).
ResetForce_Keep(ctx) == ctx

\* force_update = self.context.get('force_update', False)
\* if force_update: self.context['force_update'] = False
ResetForce(ctx) ==
    IF Truthy(Get(ctx, "force_update", Bool(FALSE)))
    THEN Put(ctx, "force_update", Bool(FALSE)) ELSE ctx

\* Takes the lock, picks the screen and resets the force_update flag.
UD_Pick(t) ==
    /\ pc[t] = "ud_acquire"
    /\ LockFree(t)
    /\ update_lock' = t
    /\ local' = [local EXCEPT ![t].screen_to_render = PickScreen(current_screen)]
    /\ context' = ResetForce(context)
    /\ pc' = [pc EXCEPT ![t] = "ud_render"]
    /\ UNCHANGED <<loops, radio, shutdown_requested, lcd, bus, marquee, installed, now, screen_transition_in_progress, last_screen_change_time,
                   current_screen, screens, default_screen, lines,
                   first_render, expiry>>

\* screen_to_render.render(self.driver, self.context)
RenderOf(t) ==
    IF local[t].screen_to_render = Default
    THEN RadioDefaultScreen_render(default_screen, context, now)
    ELSE Render(screens[local[t].screen_to_render], default_screen, context, now)

\* The effects of a render of which the first n driver calls succeeded.
Rendered(t, r, n) ==
    LET s == local[t].screen_to_render
    IN  /\ lines' = Written(lines, r.calls, n)
        /\ context' = IF r.tracks THEN Tracked(context, r.calls, n) ELSE context
        /\ default_screen' = r.d
        /\ screens' = IF s = Default THEN screens
                      ELSE IF screens[s].name = "radio_default"
                      THEN [screens EXCEPT ![s].d = r.own]
                      ELSE [screens EXCEPT ![s].start_time = r.st]
        /\ first_render' =
              IF s = Default \/ first_render[s] # None THEN first_render
              ELSE [first_render EXCEPT ![s] = now]

UD_Render(t) ==
    /\ pc[t] = "ud_render"
    /\ LET r == RenderOf(t)
       IN  /\ Rendered(t, r, Len(r.calls))
           /\ local' = [local EXCEPT ![t].continue_display = r.ret]
    /\ pc' = [pc EXCEPT ![t] = "ud_react"]
    /\ UNCHANGED <<loops, radio, shutdown_requested, lcd, bus, marquee, installed, now, update_lock, screen_transition_in_progress,
                   last_screen_change_time, current_screen, expiry>>

\* The k-th driver.display_text call of the render raises.
UD_RenderRaises(t, k) ==
    /\ pc[t] = "ud_render"
    /\ LET r == RenderOf(t)
       IN  /\ k <= Len(r.calls)
           /\ Rendered(t, r, k - 1)
    /\ pc' = [pc EXCEPT ![t] = "ud_except"]
    /\ UNCHANGED <<loops, radio, shutdown_requested, lcd, bus, marquee, installed, now, local, update_lock, screen_transition_in_progress,
                   last_screen_change_time, current_screen, expiry>>

\* The slot and the expiry after the reaction to the render's return value.
Reacted(t) ==
    /\ current_screen' = ReactSlot(current_screen, local[t].continue_display)
    /\ expiry' = IF current_screen # NoScreen /\ ~local[t].continue_display
                 THEN [state |-> "pending", by |-> "main"] ELSE expiry

\* The expiry of a temporary screen, or nothing; then the lock is released.
UD_React(t) ==
    /\ pc[t] = "ud_react"
    /\ pc' = [pc EXCEPT ![t] = "idle"]
    /\ local' = [local EXCEPT ![t] = NoLocal]
    /\ Reacted(t)
    /\ IF current_screen' # current_screen
       THEN /\ lines' = BlankLines
            /\ context' = ResetTracking(Put(context, "force_update", Bool(TRUE)))
       ELSE UNCHANGED <<lines, context>>
    /\ update_lock' = "free"
    /\ UNCHANGED <<loops, radio, shutdown_requested, lcd, bus, marquee, installed, now, screen_transition_in_progress, last_screen_change_time,
                   screens, default_screen, first_render>>

\* self.driver.clear() of the expiry raises, after the slot was emptied.
UD_ReactClearRaises(t) ==
    /\ pc[t] = "ud_react"
    /\ ReactSlot(current_screen, local[t].continue_display) # current_screen
    /\ pc' = [pc EXCEPT ![t] = "ud_except"]
    /\ Reacted(t)
    /\ UNCHANGED <<loops, radio, shutdown_requested, lcd, bus, marquee, installed, now, local, update_lock, screen_transition_in_progress,
                   last_screen_change_time, screens, default_screen, context, lines,
                   first_render>>

\* A handler that gives up the screen whose frame failed (told from the
\* code by C35).
ExceptSlot_Clear(cur) == NoScreen

\* except Exception: the handler does not assign self.current_screen
ExceptSlot(cur) == cur

\* except Exception: the recovery clear succeeds.
UD_Except(t) ==
    /\ pc[t] = "ud_except"
    /\ lines' = BlankLines
    /\ context' = Put(ResetTracking(context), "force_update", Bool(TRUE))
    /\ current_screen' = ExceptSlot(current_screen)
    /\ update_lock' = "free"
    /\ pc' = [pc EXCEPT ![t] = RecoveryOutcome(FALSE)]
    /\ local' = [local EXCEPT ![t] = NoLocal]
    /\ UNCHANGED <<loops, radio, shutdown_requested, lcd, bus, marquee, installed, now, screen_transition_in_progress, last_screen_change_time,
                   screens, default_screen, first_render, expiry>>

\* except Exception: the recovery clear raises too (except: pass).
UD_ExceptClearRaises(t) ==
    /\ pc[t] = "ud_except"
    /\ current_screen' = ExceptSlot(current_screen)
    /\ update_lock' = "free"
    /\ pc' = [pc EXCEPT ![t] = RecoveryOutcome(TRUE)]
    /\ local' = [local EXCEPT ![t] = NoLocal]
    /\ UNCHANGED <<loops, radio, shutdown_requested, lcd, bus, marquee, installed, now, screen_transition_in_progress, last_screen_change_time,
                   screens, default_screen, context, lines,
                   first_render, expiry>>

\* ----------------------------------------------------------- clear_display
\* Takes the lock; self._screen_transition_in_progress = True
CD_Call(t) ==
    /\ pc[t] = "idle"
    /\ LockFree(t)
    /\ update_lock' = t
    /\ screen_transition_in_progress' = TRUE
    /\ pc' = [pc EXCEPT ![t] = "cd_clear"]
    /\ expiry' = ExpiryAtCall(t, "clear_display")
    /\ UNCHANGED <<shutdown_requested, lcd, bus, marquee, installed, now, local, last_screen_change_time, current_screen, screens,
                   default_screen, context, lines, first_render>>

CD_Enter(t) == CD_Call(t) /\ UNCHANGED <<loops, radio>>

\* try: the clear and the resets; finally: the flag; the lock is released.
CD_Clear(t) ==
    /\ pc[t] = "cd_clear"
    /\ lines' = BlankLines
    /\ current_screen' = NoScreen
    /\ context' = Put(ResetTracking(context), "force_update", Bool(TRUE))
    /\ screen_transition_in_progress' = FALSE
    /\ update_lock' = "free"
    /\ pc' = [pc EXCEPT ![t] = "idle"]
    /\ local' = [local EXCEPT ![t] = NoLocal]
    /\ UNCHANGED <<loops, radio, shutdown_requested, lcd, bus, marquee, installed, now, last_screen_change_time, screens, default_screen,
                   first_render, expiry>>

\* self.driver.clear() raises: the finally resets the flag, the resets are
\* not reached and the exception reaches the caller.
CD_ClearRaises(t) ==
    /\ pc[t] = "cd_clear"
    /\ screen_transition_in_progress' = FALSE
    /\ update_lock' = "free"
    /\ pc' = [pc EXCEPT ![t] = "cd_raised"]
    /\ UNCHANGED <<loops, radio, shutdown_requested, lcd, bus, marquee, installed, now, local, last_screen_change_time, current_screen, screens,
                   default_screen, context, lines, first_render, expiry>>

\* ------------------------------------------------------------- the callers
\* An exception that left a call is handled by the caller, which goes on.
Caught(t) ==
    /\ pc[t] \in {"ss_raised", "ud_raised", "cd_raised"}
    /\ pc' = [pc EXCEPT ![t] = "idle"]
    /\ local' = [local EXCEPT ![t] = NoLocal]
    /\ UNCHANGED <<loops, radio, shutdown_requested, lcd, bus, marquee, installed, now, update_lock, screen_transition_in_progress,
                   last_screen_change_time, current_screen, screens, default_screen,
                   context, lines, first_render, expiry>>

\* -------------------------------------------------------------------- time
Tick(limit) ==
    /\ now < limit
    /\ now' = now + 1
    /\ UNCHANGED <<loops, radio, shutdown_requested, lcd, bus, marquee, installed, pc, local, update_lock, screen_transition_in_progress,
                   last_screen_change_time, current_screen, screens, default_screen,
                   context, lines, first_render, expiry>>

\* ------------------------------------------------------- the application
\* manage_display: update_context(is_playing=..., channel_name=..., current_song=...)
AppPatch(is_playing) ==
    [is_playing |-> Bool(is_playing),
     channel_name |-> Str(IF is_playing THEN TxtJazzFM ELSE TxtRadio),
     current_song |-> Str(TxtLoading)]

\* adjust_volume: update_context(volume_text=get_current_volume())
VolumePatch == [volume_text |-> Str(<<" ">> \o Txt75 \o <<"\n">>)]

\* change_channel: update_context(channel_text=channel_name)
ChannelPatch == [channel_text |-> Str(TxtJazzFM)]

\* The steps by which a thread that holds the lock, or needs none, goes on
\* after the render or without one.
Finish(t) ==
    \/ SS_Wake(t)
    \/ SS_Install(t)
    \/ SS_ClearRaises(t)
    \/ UC_Merge(t)
    \/ UD_Return(t)
    \/ UD_React(t)
    \/ UD_ReactClearRaises(t)
    \/ UD_Except(t)
    \/ UD_ExceptClearRaises(t)
    \/ CD_Clear(t)
    \/ CD_ClearRaises(t)
    \/ Caught(t)

\* The steps a thread takes inside a call.
Step(t) ==
    \/ UD_Pick(t)
    \/ UD_Render(t)
    \/ \E k \in 1..Height : UD_RenderRaises(t, k)
    \/ Finish(t)

\* The display thread (manage_display) refreshes the context and renders.
DisplayThread ==
    \/ UC_Enter("display", AppPatch(TRUE))
    \/ UD_Skip("display")
    \/ UD_Enter("display")
    \/ Step("display")

\* The main thread: the button callbacks.
MainThread ==
    \/ \E s \in ScreenIds, cf \in BOOLEAN : SS_Enter("main", s, cf)
    \/ UC_Enter("main", VolumePatch)
    \/ CD_Enter("main")
    \/ Step("main")

Next ==
    \/ DisplayThread
    \/ MainThread
    \/ Tick(MaxTime)

Spec == Init /\ [][Next]_vars

\* ------------------------------------------------ one caller, long horizon
\* The timed screens the application makes, with the short duration and
\* with the classes' default of 2.0 seconds.
TimedScreens ==
    {VolumeScreen(ShortDuration), GoodbyeScreen(ShortDuration),
     ErrorScreen(TxtNoChannels, ShortDuration, FALSE),
     ChannelScreen(ShortDuration), ChannelScreen(DefaultDuration)}

InitSeq ==
    /\ ManagerInit
    /\ installed = NoInstall
    /\ \E scr \in TimedScreens :
          screens = [s \in ScreenIds |->
                        IF s = "s1" THEN scr
                        ELSE ErrorScreen(TxtNoChannels, ShortDuration, TRUE)]

\* time.sleep(dt) of the caller between two calls
Sleep(t, dt, limit) ==
    /\ pc[t] = "idle"
    /\ now + dt <= limit
    /\ now' = now + dt
    /\ UNCHANGED <<loops, radio, shutdown_requested, lcd, bus, marquee, installed, pc, local, update_lock, screen_transition_in_progress,
                   last_screen_change_time, current_screen, screens, default_screen,
                   context, lines, first_render, expiry>>

\* The sleeps of the caller, in ticks: 0.5 and 1.1 seconds
SleepSteps == {5, 11}

\* A single thread that installs screens, sets the channel text, renders and
\* sleeps, as display_config_examples.demo_configurations does, with no
\* driver fault and no installation within the minimum interval of the
\* previous one.
NextSeq ==
    \/ /\ now - last_screen_change_time >= MinScreenChangeInterval
       /\ \E cf \in BOOLEAN : SS_Enter("main", "s1", cf)
    \/ SS_Install("main")
    \/ UC_Enter("main", ChannelPatch)
    \/ UC_Merge("main")
    \/ UD_Enter("main")
    \/ UD_Pick("main")
    \/ UD_Render("main")
    \/ UD_React("main")
    \/ \E dt \in SleepSteps : Sleep("main", dt, MaxTimeSeq)

SpecSeq == InitSeq /\ [][NextSeq]_vars

\* ------------------------------------------------- the display loop, fairly
\* Time passes, and a thread that has the lock, or needs none, goes on: no
\* call sleeps or blocks for ever once it is past its render.
Fairness ==
    /\ WF_vars(Tick(MaxTime))
    /\ \A t \in Threads : WF_vars(Finish(t))

LiveSpec == Init /\ [][Next]_vars /\ Fairness

\* ------------------------------------------- the physical driver, called
\* Everything of the manager, which the driver's calls leave alone.
managerVars ==
    <<bus, now, pc, local, update_lock, screen_transition_in_progress,
      last_screen_change_time, current_screen, screens, default_screen,
      context, lines, first_render, expiry, marquee, installed,
      shutdown_requested, loops, radio>>

\* Texts handed to the driver: None, the empty string, a short text, a text
\* at the edges of the printable range (31, 32, 126, 127), and an over-long
\* text (width + 2) with a tab, a non-ASCII character (233) and a newline.
TxtHi == <<72, 105>>
TxtEdges == <<31, 32, 126, 127>>
TxtOverLong == <<72, 9, 233>> \o [i \in 1..(Width - 3) |-> 64 + i] \o <<10, 90>>
DriverTexts == {NoText, Text(<<>>), Text(TxtHi), Text(TxtEdges), Text(TxtOverLong)}

\* I2CLCDDriver.display_text(text, line), under _display_lock; raises: the
\* hardware write lcd_display_string raises, the handler blanks the line.
I2C_display_text_call(text, line, raises) ==
    /\ lcd.n < MaxCalls
    /\ LET clean_text == CleanText(text)
           valid == ValidLine(line)
           return == ~valid \/ LineUnchanged(lcd.current_lines, line, clean_text)
           writes == IF return THEN <<>>
                     ELSE IF raises THEN <<clean_text, BlankLine>>
                     ELSE <<clean_text>>
       IN  /\ raises => ~return
           /\ lcd' = [current_lines |->
                          IF return \/ raises THEN lcd.current_lines
                          ELSE [lcd.current_lines EXCEPT ![line] = clean_text],
                      n |-> lcd.n + 1,
                      call |-> [op |-> "display_text", text |-> text, line |-> line],
                      sent |-> writes,
                      last_sent |->
                          IF return THEN lcd.last_sent
                          ELSE [lcd.last_sent EXCEPT ![line] = writes[Len(writes)]]]

I2C_display_text(text, line, raises) ==
    I2C_display_text_call(text, line, raises) /\ UNCHANGED managerVars

\* I2CLCDDriver.clear(), under _display_lock; raises: lcd_clear raises and
\* the handler prints.
I2C_clear_call(raises) ==
    /\ lcd.n < MaxCalls
    /\ lcd' = [lcd EXCEPT !.current_lines =
                              IF raises THEN @ ELSE [i \in 1..Height |-> <<>>],
                          !.n = @ + 1,
                          !.call = [op |-> "clear", text |-> NoText, line |-> 0],
                          !.sent = <<>>,
                          !.last_sent =
                              IF raises THEN @ ELSE [i \in 1..Height |-> <<>>]]

I2C_clear(raises) == I2C_clear_call(raises) /\ UNCHANGED managerVars

NextLCD ==
    \/ \E text \in DriverTexts, line \in 0..(Height + 1), raises \in BOOLEAN :
          I2C_display_text(text, line, raises)
    \/ \E raises \in BOOLEAN : I2C_clear(raises)

SpecLCD == Init /\ [][NextLCD]_vars

\* ------------------------------------------------- the two drivers, side by side
\* Everything of the manager but the mock driver's lines.
managerVarsButLines ==
    <<bus, now, pc, local, update_lock, screen_transition_in_progress,
      last_screen_change_time, current_screen, screens, default_screen,
      context, first_render, expiry, marquee, installed, shutdown_requested,
      loops, radio>>

\* The same display_text(text, line) call on the physical driver and on a
\* MockDisplayDriver: self.lines[line - 1] = text
Both_display_text(text, line, raises) ==
    /\ I2C_display_text_call(text, line, raises)
    /\ lines' = display_text(lines, text.s, line)
    /\ UNCHANGED managerVarsButLines

\* The same clear() call on both: self.lines = [""] * self.height
Both_clear(raises) ==
    /\ I2C_clear_call(raises)
    /\ lines' = BlankLines
    /\ UNCHANGED managerVarsButLines

NextDrivers ==
    \/ \E text \in DriverTexts \ {NoText}, line \in 0..(Height + 1), raises \in BOOLEAN :
          Both_display_text(text, line, raises)
    \/ \E raises \in BOOLEAN : Both_clear(raises)

SpecDrivers == Init /\ [][NextDrivers]_vars

\* ------------------------------------------------- the marquee, called
\* The texts of the caller: one that fits, one of exactly the width, one a
\* character longer, and "This Is A Very Long Song Title".
TxtSixteen ==
    <<"S", "i", "x", "t", "e", "e", "n", " ", "L", "e", "t", "t", "e", "r",
      "s", "!">>
TxtSeventeen ==
    <<"S", "e", "v", "e", "n", "t", "e", "e", "n", " ", "L", "e", "t", "t",
      "e", "r", "s">>
TxtLongSong ==
    <<"T", "h", "i", "s", " ", "I", "s", " ", "A", " ", "V", "e", "r", "y",
      " ", "L", "o", "n", "g", " ", "S", "o", "n", "g", " ", "T", "i", "t",
      "l", "e">>
SongTexts == {TxtJazzFM, TxtSixteen, TxtSeventeen, TxtLongSong}

\* One call of a marquee of the default screen at the time now: "song" is
\* _handle_marquee_text (the radio plays), "off" is _handle_marquee_off_text
\* with the banner (the radio is off). A session stays with one of them.
MarqueeCall(which, text) ==
    /\ marquee.which \in {"none", which}
    /\ LET r == IF which = "song"
                THEN handle_marquee_text(default_screen, text, Width, now)
                ELSE handle_marquee_off_text(default_screen, text, Width, now)
           last == IF which = "song" THEN default_screen.last_displayed_song
                   ELSE default_screen.off_last_displayed_text
           found == IF which = "song"
                    THEN [phase |-> default_screen.scroll_phase,
                          offset |-> default_screen.marquee_scroll_offset]
                    ELSE [phase |-> default_screen.off_scroll_phase,
                          offset |-> default_screen.off_marquee_scroll_offset]
       IN  /\ default_screen' = r.d
           /\ marquee' = [which |-> which, text |-> text, content |-> r.content,
                          flip |-> 1 - marquee.flip,
                          reset |-> IF text # last THEN found ELSE NoReset]
    /\ UNCHANGED <<local, update_lock, screen_transition_in_progress,
                   last_screen_change_time, current_screen, screens, context,
                   lines, first_render, expiry, lcd, bus, installed,
                   shutdown_requested, loops, radio>>

\* line2_content = self._handle_marquee_text(current_song, width)
M_Song(text) == MarqueeCall("song", text) /\ UNCHANGED <<now, pc>>

\* line2_content = self._handle_marquee_off_text(off_message, width)
M_Off == MarqueeCall("off", TxtOffMessage) /\ UNCHANGED <<now, pc>>

\* time.sleep between two calls, up to the horizon of the session: the
\* banner's cycle is longer than the longest song's.
MarqueeSleep ==
    Sleep("main", Pause,
          IF marquee.which = "off" THEN MaxTimeMarquee ELSE MaxTimeSong)

NextMarquee ==
    \/ \E text \in SongTexts : M_Song(text)
    \/ M_Off
    \/ MarqueeSleep

SpecMarquee == Init /\ [][NextMarquee]_vars

\* ------------------------------------------------- the marquee, in a loop
\* The render loop of the callers: a call, a pause, a call, a pause.
Loop_Song(text) ==
    /\ pc["main"] = "idle"
    /\ MarqueeCall("song", text)
    /\ pc' = [pc EXCEPT !["main"] = "loop_sleep"]
    /\ UNCHANGED now

Loop_Off ==
    /\ pc["main"] = "idle"
    /\ MarqueeCall("off", TxtOffMessage)
    /\ pc' = [pc EXCEPT !["main"] = "loop_sleep"]
    /\ UNCHANGED now

\* The horizon of a session: the banner's cycle is longer than a song's.
Horizon == IF marquee.which = "off" THEN MaxTimeMarquee ELSE MaxTimeSong

Loop_Sleep ==
    /\ pc["main"] = "loop_sleep"
    /\ now + Pause <= Horizon
    /\ now' = now + Pause
    /\ pc' = [pc EXCEPT !["main"] = "idle"]
    /\ UNCHANGED <<local, update_lock, screen_transition_in_progress,
                   last_screen_change_time, current_screen, screens,
                   default_screen, context, lines, first_render, expiry, lcd, bus,
                   marquee, installed, shutdown_requested, loops, radio>>

NextLoop ==
    \/ \E text \in SongTexts : Loop_Song(text)
    \/ Loop_Off
    \/ Loop_Sleep

\* The loop goes on: the pause ends and the next call is made.
LoopFairness ==
    /\ WF_vars(Loop_Sleep)
    /\ WF_vars(Loop_Off)
    /\ WF_vars(\E text \in SongTexts : Loop_Song(text))

LiveMarquee == Init /\ [][NextLoop]_vars /\ LoopFairness

\* --------------------------------------------- screens that do not expire
\* A single thread with a screen that has no expiry: the RadioDefaultScreen
\* that quick_marquee_test installs, or the persistent ErrorScreen of the
\* application; the other screen is a timed one. The thread installs either,
\* updates the context, renders (the driver may fail), clears and sleeps.
PersistentScreens == {RadioScreen(StartTime), ErrorScreen(TxtNoChannels, ShortDuration, TRUE)}

InitPersist ==
    /\ ManagerInit
    /\ installed = NoInstall
    /\ \E scr \in PersistentScreens :
          screens = [s \in ScreenIds |->
                        IF s = "s1" THEN scr ELSE VolumeScreen(ShortDuration)]

NextPersist ==
    \/ /\ now - last_screen_change_time >= MinScreenChangeInterval
       /\ \E s \in ScreenIds, cf \in BOOLEAN : SS_Enter("main", s, cf)
    \/ SS_Install("main")
    \/ UC_Enter("main", AppPatch(FALSE))
    \/ UC_Merge("main")
    \/ CD_Enter("main")
    \/ CD_Clear("main")
    \/ UD_Enter("main")
    \/ UD_Pick("main")
    \/ UD_Render("main")
    \/ \E k \in 1..Height : UD_RenderRaises("main", k)
    \/ UD_React("main")
    \/ UD_Except("main")
    \/ Sleep("main", Pause, MaxTimePersist)

SpecPersist == InitPersist /\ [][NextPersist]_vars

\* ------------------------------------------------ show_screen after show_screen
\* A single thread that calls show_screen again and again, at any time, the
\* driver's clear may fail; the time each installation takes effect is kept.
InitShow ==
    /\ ManagerInit
    /\ installed = [track |-> TRUE, at |-> None]
    /\ screens = [s \in ScreenIds |->
                    IF s = "s1" THEN VolumeScreen(ShortDuration)
                    ELSE ErrorScreen(TxtNoChannels, ShortDuration, TRUE)]

NextShow ==
    \/ \E s \in ScreenIds, cf \in BOOLEAN : SS_Enter("main", s, cf)
    \/ SS_Wake("main")
    \/ SS_Install("main")
    \/ SS_ClearRaises("main")
    \/ Caught("main")
    \/ Tick(MaxTimeShow)

SpecShow == InitShow /\ [][NextShow]_vars

\* ---------------------------------------------------------- the teardown
\* The keyword parameters of GoodbyeScreen.__init__, and the keyword the
\* teardown passes: GoodbyeScreen(duration=1.5).
GoodbyeScreen_params == {"display_duration"}
TeardownKeyword == "duration"

\* time.sleep(0.5), in ticks
TeardownSleep == 5

\* finally: plex_radio.shutdown_requested = True; time.sleep(0.5)
TD_Request ==
    /\ pc["main"] = "idle"
    /\ ~shutdown_requested
    /\ shutdown_requested' = TRUE
    /\ pc' = [pc EXCEPT !["main"] = "td_sleep"]
    /\ local' = [local EXCEPT !["main"].wake = now + TeardownSleep]
    /\ UNCHANGED <<now, update_lock, screen_transition_in_progress,
                   last_screen_change_time, current_screen, screens,
                   default_screen, context, lines, first_render, expiry, lcd, bus,
                   marquee, installed, loops, radio>>

\* The sleep is over; stop_current_playback() leaves the display alone.
TD_Wake ==
    /\ pc["main"] = "td_sleep"
    /\ now >= local["main"].wake
    /\ pc' = [pc EXCEPT !["main"] = "td_goodbye"]
    /\ local' = [local EXCEPT !["main"] = NoLocal]
    /\ UNCHANGED <<now, update_lock, screen_transition_in_progress,
                   last_screen_change_time, current_screen, screens,
                   default_screen, context, lines, first_render, expiry, lcd, bus,
                   marquee, installed, shutdown_requested, loops, radio>>

\* goodbye_screen = GoodbyeScreen(duration=1.5): a keyword the constructor
\* does not have raises TypeError, which leaves the finally block with
\* show_screen, the update_display loop and clear_display not executed.
TD_Goodbye ==
    /\ pc["main"] = "td_goodbye"
    /\ pc' = [pc EXCEPT !["main"] =
                 IF TeardownKeyword \in GoodbyeScreen_params
                 THEN "td_show" ELSE "td_raised"]
    /\ UNCHANGED <<now, local, update_lock, screen_transition_in_progress,
                   last_screen_change_time, current_screen, screens,
                   default_screen, context, lines, first_render, expiry, lcd, bus,
                   marquee, installed, shutdown_requested, loops, radio>>

\* The sleeps of the two loops, in ticks: time.sleep(0.1) and time.sleep(1)
\* of manage_display, time.sleep(10) and time.sleep(1) of manage_playback.
DisplaySleep == 1
DisplayErrorSleep == 10
PlayingSleep == 100
IdleSleep == 10

\* while not radio_client.shutdown_requested
LoopGoesOn(flag) == ~flag

\* The test at the top of manage_display and of manage_playback: the loop
\* enters its body, or it ends.
L_Top(l) ==
    /\ loops[l].at = "top"
    /\ UNCHANGED radio
    /\ loops' = [loops EXCEPT ![l].at =
                    IF LoopGoesOn(shutdown_requested) THEN "body" ELSE "done"]
    /\ UNCHANGED <<now, pc, local, update_lock, screen_transition_in_progress,
                   last_screen_change_time, current_screen, screens,
                   default_screen, context, lines, first_render, expiry, lcd, bus,
                   marquee, installed, shutdown_requested>>

\* time.sleep(...) of a loop returns; the loop is at its top again.
L_Wake(l) ==
    /\ loops[l].at = "asleep"
    /\ now >= loops[l].wake
    /\ UNCHANGED radio
    /\ loops' = [loops EXCEPT ![l] = [at |-> "top", wake |-> None]]
    /\ UNCHANGED <<now, pc, local, update_lock, screen_transition_in_progress,
                   last_screen_change_time, current_screen, screens,
                   default_screen, context, lines, first_render, expiry, lcd, bus,
                   marquee, installed, shutdown_requested>>

\* manage_display: radio_client.display.update_context(...)
D_Context ==
    /\ loops["display"].at = "body"
    /\ UC_Call("display", AppPatch(TRUE))
    /\ UNCHANGED radio
    /\ loops' = [loops EXCEPT !["display"].at = "update_display"]

\* manage_display: radio_client.display.update_display()
D_Display ==
    /\ loops["display"].at = "update_display"
    /\ UD_Call("display") \/ UD_SkipCall("display")
    /\ UNCHANGED radio
    /\ loops' = [loops EXCEPT !["display"].at = "called"]

\* manage_display: the call returned; time.sleep(0.1)
D_Sleep ==
    /\ loops["display"].at = "called"
    /\ pc["display"] = "idle"
    /\ UNCHANGED radio
    /\ loops' = [loops EXCEPT !["display"] =
                    [at |-> "asleep", wake |-> now + DisplaySleep]]
    /\ UNCHANGED <<now, pc, local, update_lock, screen_transition_in_progress,
                   last_screen_change_time, current_screen, screens,
                   default_screen, context, lines, first_render, expiry, lcd, bus,
                   marquee, installed, shutdown_requested>>

\* manage_display: the arguments of update_context raise; except Exception:
\* time.sleep(1), then time.sleep(0.1)
D_Raises ==
    /\ loops["display"].at = "body"
    /\ pc["display"] = "idle"
    /\ UNCHANGED radio
    /\ loops' = [loops EXCEPT !["display"] =
                    [at |-> "asleep", wake |-> now + DisplayErrorSleep + DisplaySleep]]
    /\ UNCHANGED <<now, pc, local, update_lock, screen_transition_in_progress,
                   last_screen_change_time, current_screen, screens,
                   default_screen, context, lines, first_render, expiry, lcd, bus,
                   marquee, installed, shutdown_requested>>

\* manage_display; the calls of its body go on by the manager's steps. The
\* loop makes no show_screen and no clear_display call.
DisplayLoop ==
    \/ L_Top("display")
    \/ D_Context
    \/ D_Display
    \/ D_Sleep
    \/ D_Raises
    \/ L_Wake("display")
    \/ UC_Merge("display")
    \/ UD_Pick("display")
    \/ UD_Render("display")
    \/ \E k \in 1..Height : UD_RenderRaises("display", k)
    \/ UD_React("display")
    \/ UD_Except("display")
    \/ UD_ExceptClearRaises("display")

\* manage_playback: one iteration body, the radio playing (the song is
\* polled, time.sleep(10)) or not (time.sleep(1)).
P_Body(is_playing) ==
    /\ loops["playback"].at = "body"
    /\ UNCHANGED radio
    /\ loops' = [loops EXCEPT !["playback"] =
                    [at |-> "asleep",
                     wake |-> now + (IF is_playing THEN PlayingSleep ELSE IdleSleep)]]
    /\ UNCHANGED <<now, pc, local, update_lock, screen_transition_in_progress,
                   last_screen_change_time, current_screen, screens,
                   default_screen, context, lines, first_render, expiry, lcd, bus,
                   marquee, installed, shutdown_requested>>

PlaybackLoop ==
    \/ L_Top("playback")
    \/ \E is_playing \in BOOLEAN : P_Body(is_playing)
    \/ L_Wake("playback")

\* The exception leaves the finally block and the main thread: the process
\* ends, and with it the two threads, which are daemon threads.
TD_Exit ==
    /\ pc["main"] = "td_raised"
    /\ pc' = [pc EXCEPT !["main"] = "exited"]
    /\ UNCHANGED radio
    /\ loops' = [l \in Loops |->
                    IF loops[l].at = "done" THEN loops[l]
                    ELSE [at |-> "killed", wake |-> None]]
    /\ UNCHANGED <<now, local, update_lock, screen_transition_in_progress,
                   last_screen_change_time, current_screen, screens,
                   default_screen, context, lines, first_render, expiry, lcd, bus,
                   marquee, installed, shutdown_requested>>

NextTeardown ==
    \/ DisplayLoop
    \/ PlaybackLoop
    \/ TD_Request
    \/ TD_Wake
    \/ TD_Goodbye
    \/ TD_Exit
    \/ Tick(MaxTimeTeardown)

SpecTeardown == Init /\ [][NextTeardown]_vars

\* ------------------------------------------------------------ the steps
\* The steps of a call the properties are about.
RenderStep(t) == pc[t] = "ud_render" /\ pc'[t] # "ud_render"
ReactStep(t) == pc[t] = "ud_react" /\ pc'[t] # "ud_react"
SkipStep(t) == pc[t] = "idle" /\ pc'[t] = "ud_return"
MergeStep(t) == pc[t] = "uc_merge" /\ pc'[t] # "uc_merge"
ClearStep(t) == pc[t] = "cd_clear" /\ pc'[t] # "cd_clear"

\* ---------------------------------------------------------------------- C1
\* C1 (amended): while a temporary screen is installed, every
\* update_display() call that gets to render renders that screen: neither
\* the default screen's state nor the context it tracks its lines in changes.
C1_RendersInstalledScreen ==
    [][\A t \in Threads :
          (RenderStep(t) /\ current_screen # NoScreen) =>
              /\ local[t].screen_to_render = current_screen
              /\ default_screen' = default_screen
              /\ context' = context]_vars

\* C1 as stated: every update_display() call made while a temporary screen is
\* installed renders it, so none returns without rendering.
C1_EveryCallRenders ==
    [][\A t \in Threads :
          /\ (RenderStep(t) /\ current_screen # NoScreen) =>
                  /\ local[t].screen_to_render = current_screen
                  /\ default_screen' = default_screen
                  /\ context' = context
          /\ SkipStep(t) => current_screen = NoScreen]_vars

\* A call has rendered the installed temporary screen, which goes on.
C1_TempRendered ==
    \E t \in Threads :
        /\ pc[t] = "ud_react"
        /\ current_screen # NoScreen
        /\ local[t].screen_to_render = current_screen
        /\ local[t].continue_display
        /\ lines # BlankLines

\* ---------------------------------------------------------------------- C2
\* C2 (amended): when the temporary screen's render returned false, the call
\* empties the slot and, returning, has cleared the display; the first
\* update_display() call begun after that with no show_screen() in between,
\* if it gets to render, renders the default screen.
C2_ExpiryThenDefault ==
    [][\A t \in Threads :
          /\ (ReactStep(t) /\ current_screen # NoScreen /\ ~local[t].continue_display) =>
                  /\ current_screen' = NoScreen
                  /\ pc'[t] = "idle" => lines' = BlankLines
          /\ (RenderStep(t) /\ expiry.state = "claimed" /\ expiry.by = t) =>
                  local[t].screen_to_render = Default]_vars

\* C2 as stated: the very next update_display() call renders the default
\* screen, so it does not return without rendering.
C2_NextCallRendersDefault ==
    [][\A t \in Threads :
          /\ (ReactStep(t) /\ current_screen # NoScreen /\ ~local[t].continue_display) =>
                  /\ current_screen' = NoScreen
                  /\ pc'[t] = "idle" => lines' = BlankLines
          /\ (RenderStep(t) /\ expiry.state = "claimed" /\ expiry.by = t) =>
                  local[t].screen_to_render = Default
          /\ SkipStep(t) => expiry.state # "pending"]_vars

\* The call that follows an expiry has rendered the default screen.
C2_DefaultAfterExpiry ==
    \E t \in Threads :
        /\ expiry.state = "claimed" /\ expiry.by = t
        /\ pc[t] = "ud_react"
        /\ local[t].screen_to_render = Default
        /\ current_screen = NoScreen
        /\ lines # BlankLines

\* ---------------------------------------------------------------------- C3
\* C3: a timed screen's render returns true exactly when the time since the
\* first render after its latest installation is less than its duration.
C3_TrueUntilDuration ==
    [][\A t \in Threads :
          (RenderStep(t) /\ pc'[t] = "ud_react"
                /\ local[t].screen_to_render \in ScreenIds) =>
              LET s == local[t].screen_to_render
              IN  ~screens[s].persistent =>
                      (local'[t].continue_display <=>
                           now < first_render'[s] + screens[s].display_duration)]_vars

\* A render exactly one duration after the first one has returned false.
C3_FalseAtDuration ==
    \E t \in Threads :
        /\ pc[t] = "ud_react"
        /\ local[t].screen_to_render = "s1"
        /\ ~local[t].continue_display
        /\ screens["s1"].display_duration = DefaultDuration
        /\ now = first_render["s1"] + DefaultDuration

\* ---------------------------------------------------------------------- C4
\* The lines of the channel screen of "Jazz FM" on the 16 columns.
ChannelLines ==
    <<Spaces(4) \o TxtChannel \o Spaces(5), Spaces(4) \o TxtJazzFM \o Spaces(5)>>

\* The ChannelScreen of 2.0 seconds is installed and the channel text is set.
ScenarioA ==
    /\ screens["s1"].name = "channel"
    /\ screens["s1"].display_duration = DefaultDuration
    /\ Get(context, "channel_text", Str(<<>>)) = Str(TxtJazzFM)

\* C4 (amended): in scenario A the calls before 2.0 seconds leave "Channel" /
\* "Jazz FM" on the display; the call at 2.1 seconds renders the channel
\* screen once more, empties the slot and leaves the display cleared; the
\* call after it is the one that puts the default screen's lines on it.
C4_ScenarioA ==
    [][\A t \in Threads :
          (ReactStep(t) /\ ScenarioA) =>
              /\ (local[t].screen_to_render = "s1" /\ now < first_render["s1"] + DefaultDuration)
                     => (lines' = ChannelLines /\ current_screen' = current_screen)
              /\ (local[t].screen_to_render = "s1" /\ current_screen = "s1"
                      /\ now >= first_render["s1"] + DefaultDuration)
                     => (lines' = BlankLines /\ current_screen' = NoScreen)
              /\ (local[t].screen_to_render = Default /\ expiry.state = "claimed")
                     => lines'[1] = Center(ClockText(now), Width)]_vars

\* C4 as stated: the call at 2.1 seconds leaves the default screen's lines
\* on the display.
C4_FourthCallShowsDefault ==
    [][\A t \in Threads :
          (ReactStep(t) /\ ScenarioA) =>
              /\ (local[t].screen_to_render = "s1" /\ now < first_render["s1"] + DefaultDuration)
                     => (lines' = ChannelLines /\ current_screen' = current_screen)
              /\ (local[t].screen_to_render = "s1" /\ current_screen = "s1"
                      /\ now >= first_render["s1"] + DefaultDuration)
                     => (lines'[1] = Center(ClockText(now), Width)
                         /\ current_screen' = NoScreen)]_vars

\* Scenario A after its fourth call, 2.1 seconds after the first render.
C4_AfterFourthCall ==
    /\ ScenarioA
    /\ pc["main"] = "idle"
    /\ expiry.state = "pending"
    /\ now = first_render["s1"] + DefaultDuration + 1
    /\ current_screen = NoScreen
    /\ lines = BlankLines

\* ---------------------------------------------------------------------- C5
\* The pcs of a show_screen() or clear_display() call of the main thread.
ShowOrClear == {"ss_sleep", "ss_install", "ss_raised", "cd_clear", "cd_raised"}

\* A timed screen is installed and was rendered, its duration ends within
\* the horizon and no transition is in progress.
TimedScreenShown(s) ==
    /\ current_screen = s
    /\ ~screens[s].persistent
    /\ screens[s].start_time # None
    /\ screens[s].start_time + screens[s].display_duration <= MaxTime
    /\ ~screen_transition_in_progress
    /\ pc["main"] \notin ShowOrClear

\* An update_display() call renders the default screen with the slot empty.
DefaultRendered ==
    /\ current_screen = NoScreen
    /\ \E t \in Threads : pc[t] = "ud_render" /\ local[t].screen_to_render = Default

\* update_display() keeps being called by manage_display and keeps getting
\* through its render.
KeepsRendering == []<>(pc["display"] = "ud_react")

\* C5: once a timed screen is shown, and if update_display() keeps being
\* called as time advances, the manager gets to the state without temporary
\* screen and a later call renders the default screen, unless a further
\* show_screen() or clear_display() call is made.
C5_TimedScreenGoesAway ==
    KeepsRendering =>
        \A s \in ScreenIds :
            TimedScreenShown(s) ~> (DefaultRendered \/ pc["main"] \in ShowOrClear)

\* The call after the expiry of a timed screen is rendering the default one.
C5_DefaultRenderedAfterTimed ==
    /\ DefaultRendered
    /\ expiry.state = "claimed"
    /\ pc["main"] = "idle"
    /\ screens["s1"].start_time # None
    /\ now >= screens["s1"].start_time + screens["s1"].display_duration

\* ---------------------------------------------------------------------- C6
\* C6: every installation resets the screen's start_time, so the start_time
\* is the time of the first render after the latest installation, or None
\* when the screen was not rendered since.
C6_StartTimeSinceInstall ==
    \A s \in ScreenIds : screens[s].start_time = first_render[s]

\* The screen was rendered, was installed again without a clear and waits
\* for its first render, the lines of the earlier render still shown.
C6_Reinstalled ==
    /\ current_screen = "s1"
    /\ screens["s1"].start_time = None
    /\ pc["main"] = "idle"
    /\ lines # BlankLines
    /\ lines[1] \in {Center(TxtVolume, Width), Center(TxtChannel, Width),
                     Center(TxtGoodbye, Width), Center(TxtError, Width)}

\* ---------------------------------------------------------------------- C7
\* C7: no exception leaves update_display(): no thread is ever where an
\* exception of update_display() reaches the caller.
C7_NeverPropagates == \A t \in Threads : pc[t] # "ud_raised"

\* The clear of an expiry raised and the recovery clear raised too: the slot
\* is empty, the display was not cleared and the call has returned.
C7_ReturnedAfterFailedRecovery ==
    /\ expiry.state = "pending"
    /\ lines # BlankLines
    /\ current_screen = NoScreen
    /\ \A t \in Threads : pc[t] = "idle"

\* ---------------------------------------------------------------------- C8
\* C8 as stated: clear_display() in any state clears the display and leaves
\* the manager with no temporary screen.
C8_ClearLeavesNoTempScreen ==
    [][\A t \in Threads :
          ClearStep(t) => (current_screen' = NoScreen /\ lines' = BlankLines)]_vars

\* ---------------------------------------------------------------------- C9
\* The pcs at which a thread holds _update_lock.
Locked == {"ss_sleep", "ss_install", "uc_merge", "ud_render", "ud_react",
           "ud_except", "cd_clear"}

\* C9: at most one thread is inside an operation's locked part; between the
\* pick and the reaction of update_display() the slot is the one it picked
\* from, and the slot update_display() empties holds the screen it rendered.
C9_MutualExclusion ==
    /\ [](\A t, u \in Threads : (pc[t] \in Locked /\ pc[u] \in Locked) => t = u)
    /\ [](\A t \in Threads : pc[t] \in Locked => update_lock = t)
    /\ [](\A t \in Threads :
            pc[t] = "ud_render" =>
                local[t].screen_to_render =
                    (IF current_screen = NoScreen THEN Default ELSE current_screen))
    /\ [][\A t \in Threads :
            (ReactStep(t) /\ current_screen' # current_screen) =>
                (current_screen = local[t].screen_to_render
                 /\ current_screen' = NoScreen)]_vars

\* The display thread waits for the lock while show_screen() installs.
C9_Contention ==
    /\ pc["display"] = "ud_acquire"
    /\ pc["main"] = "ss_install"
    /\ update_lock = "main"
    /\ current_screen # NoScreen

\* --------------------------------------------------------------------- C10
\* r is s without its leading and trailing whitespace.
IsStripped(r, s) ==
    /\ r = <<>> \/ (r[1] \notin Whitespace /\ r[Len(r)] \notin Whitespace)
    /\ \E a \in 0..Len(s) :
          /\ a + Len(r) <= Len(s)
          /\ \A i \in 1..Len(s) :
                IF i <= a \/ i > a + Len(r) THEN s[i] \in Whitespace
                ELSE s[i] = r[i - a]

\* C10: update_context(patch) sets each key of the patch, a string to its
\* stripped value and any other value as it is, and leaves every other key
\* of the context as it was.
C10_PatchMerged ==
    [][\A t \in Threads :
          MergeStep(t) =>
              LET patch == local[t].patch
              IN  /\ DOMAIN context' = DOMAIN context \cup DOMAIN patch
                  /\ \A k \in DOMAIN patch :
                        IF patch[k].isstr
                        THEN context'[k].isstr /\ IsStripped(context'[k].s, patch[k].s)
                        ELSE context'[k] = patch[k]
                  /\ \A k \in DOMAIN context \ DOMAIN patch :
                        context'[k] = context[k]]_vars

\* The padded volume text was merged stripped, the flag of the application's
\* patch as it was given.
C10_Merged ==
    /\ Get(context, "volume_text", Str(<<>>)) = Str(Txt75)
    /\ Get(context, "is_playing", Bool(FALSE)) = Bool(TRUE)
    /\ Get(context, "channel_name", Str(<<>>)) = Str(TxtJazzFM)

\* --------------------------------------------------------------------- C11
\* A step that is a display_text call of the physical driver on a line it has.
DisplayTextStep ==
    /\ lcd'.n = lcd.n + 1
    /\ lcd'.call.op = "display_text"
    /\ 1 <= lcd'.call.line /\ lcd'.call.line <= Height

\* The call of this step repeats the call before it: same text, same line.
RepeatsCall == lcd.call = lcd'.call

Expected(text) ==
    [i \in 1..Width |->
        IF ~text.none /\ i <= Len(text.s) /\ text.s[i] >= 32 /\ text.s[i] <= 126
        THEN text.s[i] ELSE 32]

\* C12: every string the physical driver hands to the hardware is exactly
\* width characters long and holds printable ASCII (32..126) only, and the
\* string sent for a text is that text with the characters outside the range
\* replaced by spaces, truncated to width and right-padded with spaces, for
\* None, empty, over-long and control or non-ASCII texts alike.
C12_SentIsCleanAndWide ==
    /\ \A i \in 1..Len(lcd.sent) :
          /\ Len(lcd.sent[i]) = Width
          /\ \A k \in 1..Width : lcd.sent[i][k] \in 32..126
    /\ lcd.sent # <<>> => lcd.sent[1] = Expected(lcd.call.text)

\* The over-long text with a tab, a non-ASCII character and a newline has
\* been sent to the hardware.
C12_OverLongSent ==
    /\ lcd.call.op = "display_text"
    /\ lcd.call.text = Text(TxtOverLong)
    /\ Len(lcd.call.text.s) > Width
    /\ Len(lcd.sent) = 1
    /\ lcd.sent[1][2] = 32 /\ lcd.sent[1][3] = 32 /\ lcd.sent[1][Width] = 64 + Width - 3

\* --------------------------------------------------------------------- C13
\* The phase-state of a marquee of the default screen d.
PhaseState(which, d) ==
    IF which = "song"
    THEN [offset |-> d.marquee_scroll_offset, last |-> d.last_displayed_song,
          timer |-> d.scroll_state_timer, phase |-> d.scroll_phase]
    ELSE [offset |-> d.off_marquee_scroll_offset, last |-> d.off_last_displayed_text,
          timer |-> d.off_scroll_state_timer, phase |-> d.off_scroll_phase]

\* A step that is a call of the marquee.
MarqueeCallStep(which) == marquee'.flip # marquee.flip /\ marquee'.which = which

\* The call of this step has the text of the call before it.
SameTextAsBefore(which) ==
    /\ marquee.which = which
    /\ marquee.text = marquee'.text
    /\ PhaseState(which, default_screen).last = marquee'.text

\* c is s between two runs of spaces, the right one as long as the left one
\* or one longer.
IsCentered(c, s, w) ==
    \E left \in 0..w :
        /\ 2 * left + Len(s) \in {w, w - 1}
        /\ Len(c) = w
        /\ \A i \in 1..w :
              c[i] = IF i > left /\ i <= left + Len(s) THEN s[i - left] ELSE " "

\* C13: for a text no longer than the width the marquee returns the text
\* centered in exactly width characters, the same value as the call before
\* it with that text, and a call whose text is unchanged leaves the phase,
\* the offset and the timer as they were.
C13_ShortTextCenteredAndStill ==
    [][MarqueeCallStep("song") /\ Len(marquee'.text) <= Width =>
          /\ IsCentered(marquee'.content, marquee'.text, Width)
          /\ SameTextAsBefore("song") =>
                /\ marquee'.content = marquee.content
                /\ PhaseState("song", default_screen') = PhaseState("song", default_screen)]_vars

\* A short text was passed again, later than the call that first passed it.
C13_ShortTextRepeated ==
    /\ marquee.which = "song"
    /\ marquee.text = TxtJazzFM
    /\ marquee.flip = 0
    /\ default_screen.last_displayed_song = TxtJazzFM
    /\ default_screen.scroll_state_timer < now
    /\ marquee.content = <<" ", " ", " ", " ", "J", "a", "z", "z", " ", "F", "M",
                           " ", " ", " ", " ", " ">>

\* --------------------------------------------------------------------- C14
\* The window of a text at offset k: width characters from the k-th on.
Window(text, k) == [i \in 1..Width |-> text[k + i]]

\* C14: with a text longer than the width that does not change, a call in
\* the initial hold returns s[0:width] and leaves the hold only once
\* pre_scroll_delay has passed; a scrolling call moves the offset by exactly
\* one when scroll_speed has passed since the last move and by nothing
\* otherwise, returns s[k:k+width] at the new offset k and ends the
\* scrolling at k = len(s) - width; a call in the final hold returns the
\* last window and restarts from offset 0 only once post_scroll_delay has
\* passed. From call to call the window stays, moves on by one, or goes
\* from the last back to the first. Song marquee and banner marquee alike.
C14_WindowsInOrder ==
    [][\A which \in {"song", "off"} :
          LET m == PhaseState(which, default_screen)
              n == PhaseState(which, default_screen')
              s == marquee'.text
              last == Len(s) - Width
              elapsed == now - m.timer
          IN  MarqueeCallStep(which) /\ Len(s) > Width /\ m.last = s =>
                /\ n.last = s
                /\ m.phase = "initial_delay" =>
                      /\ marquee'.content = Window(s, 0)
                      /\ m.offset = 0 /\ n.offset = 0
                      /\ n.phase = IF elapsed >= PreScrollDelay
                                   THEN "scrolling" ELSE "initial_delay"
                /\ m.phase = "scrolling" =>
                      /\ n.offset = IF elapsed >= ScrollSpeed
                                    THEN m.offset + 1 ELSE m.offset
                      /\ n.offset <= last
                      /\ marquee'.content = Window(s, n.offset)
                      /\ n.phase = IF n.offset = last
                                   THEN "final_delay" ELSE "scrolling"
                /\ m.phase = "final_delay" =>
                      /\ marquee'.content = Window(s, last)
                      /\ m.offset = last
                      /\ n.phase = IF elapsed >= PostScrollDelay
                                   THEN "initial_delay" ELSE "final_delay"
                      /\ n.offset = IF elapsed >= PostScrollDelay THEN 0 ELSE last
                /\ n.timer = IF n.phase # m.phase \/ n.offset # m.offset
                             THEN now ELSE m.timer
                /\ marquee.which = which /\ marquee.text = s =>
                      \/ marquee'.content = marquee.content
                      \/ \E k \in 0..(last - 1) :
                            /\ marquee.content = Window(s, k)
                            /\ marquee'.content = Window(s, k + 1)
                      \/ /\ marquee.content = Window(s, last)
                         /\ marquee'.content = Window(s, 0)]_vars

\* The banner has gone through its whole cycle: both holds and every offset
\* in between lie behind, and the first window is back.
C14_BannerRestarted ==
    /\ marquee.which = "off"
    /\ marquee.text = TxtOffMessage
    /\ default_screen.off_scroll_phase = "initial_delay"
    /\ default_screen.off_scroll_state_timer >=
          StartTime + PreScrollDelay + ScrollSpeed * (Len(TxtOffMessage) - Width)
             + PostScrollDelay
    /\ marquee.content = Window(TxtOffMessage, 0)

\* --------------------------------------------------------------------- C15
TxtFirstWindow ==
    <<"T", "h", "i", "s", " ", "I", "s", " ", "A", " ", "V", "e", "r", "y", " ", "L">>
TxtLastWindow ==
    <<" ", "L", "o", "n", "g", " ", "S", "o", "n", "g", " ", "T", "i", "t", "l", "e">>
TxtFirstWindowStated ==
    <<"T", "h", "i", "s", " ", "I", "s", " ", "A", " ", "V", "e", "r", "y", " ", "T">>
TxtLastWindowStated ==
    <<"L", "o", "n", "g", " ", "S", "o", "n", "g", " ", "T", "i", "t", "l", "e">>

\* The latest call passed "This Is A Very Long Song Title" to the song marquee.
ScenarioB == marquee.which = "song" /\ marquee.text = TxtLongSong

\* C15 as stated: the text has 31 characters, its first visible window is
\* "This Is A Very T", the window of the final hold is "Long Song Title" and
\* the scrolling takes 31 - 16 = 15 steps.
C15_ScenarioBAsStated ==
    ScenarioB =>
        LET d == default_screen
        IN  /\ Len(marquee.text) = 31
            /\ d.marquee_scroll_offset \in 0..15
            /\ d.scroll_phase = "initial_delay"
                  => \/ marquee.content = TxtFirstWindowStated
                     \/ /\ marquee.content = TxtLastWindowStated
                        /\ d.scroll_state_timer >=
                              StartTime + PreScrollDelay + 15 * ScrollSpeed
                                 + PostScrollDelay
            /\ d.scroll_phase = "final_delay"
                  => /\ marquee.content = TxtLastWindowStated
                     /\ d.marquee_scroll_offset = 15

\* C15 as the code has it: the text has 30 characters; at width 16 the first
\* visible window is "This Is A Very L", the window of the final hold is
\* " Long Song Title" (the last 16 characters) and the offset goes through
\* 30 - 16 = 14 steps, from 0 to 14.
C15_ScenarioB ==
    ScenarioB =>
        LET d == default_screen
        IN  /\ Len(marquee.text) = 30
            /\ d.marquee_scroll_offset \in 0..14
            /\ d.scroll_phase = "initial_delay"
                  => \/ marquee.content = TxtFirstWindow
                     \/ /\ marquee.content = TxtLastWindow
                        /\ d.scroll_state_timer >=
                              StartTime + PreScrollDelay + 14 * ScrollSpeed
                                 + PostScrollDelay
            /\ d.scroll_phase = "scrolling"
                  => marquee.content = Window(TxtLongSong, d.marquee_scroll_offset)
            /\ d.scroll_phase = "final_delay"
                  => /\ marquee.content = TxtLastWindow
                     /\ d.marquee_scroll_offset = 14

\* The long title has been scrolled to its end: the final hold holds.
C15_FinalHold ==
    /\ ScenarioB
    /\ default_screen.scroll_phase = "final_delay"
    /\ default_screen.marquee_scroll_offset = 14
    /\ marquee.content = TxtLastWindow

\* --------------------------------------------------------------------- C16
\* C16: a marquee call whose text differs from the text of the call before
\* it sets the phase to initial_delay, the offset to 0 and the timer to now,
\* whatever the phase and the offset were, and returns the first width
\* characters of the new text, or the new text centered when it fits.
C16_NewTextResets ==
    [][\A which \in {"song", "off"} :
          LET m == PhaseState(which, default_screen)
              n == PhaseState(which, default_screen')
              s == marquee'.text
          IN  MarqueeCallStep(which) /\ s # m.last =>
                /\ n = [offset |-> 0, last |-> s, timer |-> now,
                        phase |-> "initial_delay"]
                /\ marquee'.content =
                      IF Len(s) > Width THEN Window(s, 0)
                      ELSE Center(s, Width)]_vars

\* A new text came while the marquee was scrolling at offset 5.
C16_ResetWhileScrolling ==
    /\ marquee.which = "song"
    /\ marquee.reset = [phase |-> "scrolling", offset |-> 5]
    /\ marquee.text = TxtSeventeen
    /\ default_screen.scroll_phase = "initial_delay"
    /\ default_screen.marquee_scroll_offset = 0
    /\ default_screen.scroll_state_timer = now

\* --------------------------------------------------------------------- C17
\* The marquee of the session.
Session == IF marquee.which = "off" THEN "off" ELSE "song"

\* The time a phase of the loop's marquee takes at most from its timer on,
\* in whole pauses: the hold, or a scroll step for every offset still to go.
InPauses(d) == ((d + Pause - 1) \div Pause) * Pause
TimeToLeave(m) ==
    CASE m.phase = "initial_delay" -> InPauses(PreScrollDelay)
      [] m.phase = "scrolling" -> (Len(m.last) - Width - m.offset) * InPauses(ScrollSpeed)
      [] m.phase = "final_delay" -> InPauses(PostScrollDelay)

\* The marquee is in phase p with a text longer than the width, and the
\* horizon leaves the phase the time it takes.
InPhase(p) ==
    LET m == PhaseState(Session, default_screen)
    IN  /\ marquee.which # "none"
        /\ m.phase = p
        /\ Len(m.last) > Width
        /\ m.timer + TimeToLeave(m) <= Horizon

\* The phase p has been left, or a call has come with a new text.
LeftPhase(p) ==
    PhaseState(Session, default_screen).phase # p \/ marquee.reset # NoReset

\* C17: the phase of a marquee changes only from initial_delay to scrolling,
\* from scrolling to final_delay, from final_delay to initial_delay, or from
\* any phase to initial_delay at a call with a new text; and in the render
\* loop, with a text longer than the width that stays, each of the three
\* phases is eventually left.
C17_PhasesCycle ==
    /\ [][\A which \in {"song", "off"} :
             LET m == PhaseState(which, default_screen)
                 n == PhaseState(which, default_screen')
             IN  n.phase # m.phase =>
                    \/ m.phase = "initial_delay" /\ n.phase = "scrolling"
                    \/ m.phase = "scrolling" /\ n.phase = "final_delay"
                    \/ m.phase = "final_delay" /\ n.phase = "initial_delay"
                    \/ n.phase = "initial_delay" /\ marquee'.text # m.last]_vars
    /\ InPhase("initial_delay") ~> LeftPhase("initial_delay")
    /\ InPhase("scrolling") ~> LeftPhase("scrolling")
    /\ InPhase("final_delay") ~> LeftPhase("final_delay")

\* The song marquee is on its second lap: it scrolls again after the final
\* hold and the restart.
C17_SecondLap ==
    /\ marquee.which = "song"
    /\ marquee.text = TxtSeventeen
    /\ marquee.reset = NoReset
    /\ default_screen.scroll_phase = "scrolling"
    /\ default_screen.scroll_state_timer >=
          StartTime + 2 * PreScrollDelay + ScrollSpeed + PostScrollDelay

\* --------------------------------------------------------------------- C18
\* The screen in slot s never signals expiry: the default screen, an
\* installed RadioDefaultScreen, or a persistent ErrorScreen.
NeverExpires(s) ==
    \/ s = Default
    \/ /\ s \in ScreenIds
       /\ \/ screens[s].name = "radio_default"
          \/ screens[s].name = "error" /\ screens[s].persistent

\* C18: every render of the default radio screen and of a persistent
\* ErrorScreen that returns, returns true; and once such a screen is the
\* active screen it stays the active screen through every update_display()
\* call: only a step of show_screen or of clear_display takes it away.
C18_PersistentScreensStay ==
    [][/\ \A t \in Threads :
             RenderStep(t) /\ pc'[t] = "ud_react"
                /\ NeverExpires(local[t].screen_to_render)
                => local'[t].continue_display
       /\ \A s \in ScreenIds :
             current_screen = s /\ NeverExpires(s) /\ current_screen' # s
                => \E t \in Threads : pc[t] \in {"ss_install", "cd_clear"}]_vars

\* A render of the installed persistent ErrorScreen has just returned true,
\* long after its display_duration has passed.
C18_LateRenderOfPersistent ==
    /\ pc["main"] = "ud_react"
    /\ local["main"].screen_to_render = "s1"
    /\ local["main"].continue_display
    /\ current_screen = "s1"
    /\ screens["s1"].name = "error" /\ screens["s1"].persistent
    /\ first_render["s1"] # None
    /\ now - first_render["s1"] > screens["s1"].display_duration + Pause

\* --------------------------------------------------------------------- C19
\* A step in which show_screen clears the driver and installs its screen.
InstallStep(t) == pc[t] = "ss_install" /\ pc'[t] = "idle"

\* C19: the installation and the driver clear of a show_screen call take
\* effect no earlier than the minimum screen-change interval after those of
\* the show_screen call before it.
C19_InstallationsApart ==
    [][\A t \in Threads :
          InstallStep(t) /\ installed.at # None
             => now - installed.at >= MinScreenChangeInterval]_vars


\* --------------------------------------------------------------------- C20
\* The goodbye screen is the active screen.
GoodbyeInstalled ==
    current_screen \in ScreenIds /\ screens[current_screen].name = "goodbye"

\* C20: once the teardown has set the shutdown flag and is past the making
\* of the goodbye screen, the goodbye screen is installed and, until the
\* final clear, the driver holds nothing but the goodbye screen's content or
\* the blank display; after the final clear no screen is installed and the
\* display is blank.
C20_GoodbyeShownThenCleared ==
    shutdown_requested /\ pc["main"] \notin {"td_sleep", "td_goodbye"} =>
        \/ /\ GoodbyeInstalled
           /\ lines \in {BlankLines,
                         [i \in 1..Height |->
                             IF i = 1 THEN Center(TxtGoodbye, Width)
                             ELSE Spaces(Width)]}
        \/ current_screen = NoScreen /\ lines = BlankLines /\ pc["main"] = "td_done"

\* --------------------------------------------------------------------- C21
\* C21: once shutdown_requested is set, each of the two background loops
\* observes it at the top of its next iteration and ends there: when the
\* process has ended, both loops have ended at the test at their top.
C21_LoopsEndAtTheirTop ==
    pc["main"] = "exited" => \A l \in Loops : loops[l].at = "done"

\* --------------------------------------------------------------------- C22
\* C22: the mock driver obeys the contract of the physical driver: after a
\* display_text call on a line of the display the text the mock driver holds
\* for the line is the text of the call normalized to exactly width
\* characters of printable ASCII.
C22_MockHoldsNormalizedText ==
    lcd.call.op = "display_text" /\ ValidLine(lcd.call.line) =>
        lines[lcd.call.line] = CleanText(lcd.call.text)

\* --------------------------------------------------------------------- C25
\* C25: clear() resets the per-line cache of the physical driver, so the
\* first display_text on a line after a clear() issues a hardware write
\* whatever its text: the display_text call that follows a clear() writes.
C25_WriteAfterClear ==
    [][DisplayTextStep /\ lcd.call.op = "clear" => lcd'.sent # <<>>]_vars

\* --------------------------------------------------------------------- C26
\* A step that is a display_text call with a line number outside 1..height.
OutOfRangeStep ==
    /\ lcd'.n = lcd.n + 1
    /\ lcd'.call.op = "display_text"
    /\ (lcd'.call.line < 1 \/ lcd'.call.line > Height)

DefaultRenderStep(t) ==
    /\ RenderStep(t)
    /\ \/ local[t].screen_to_render = Default
       \/ screens[local[t].screen_to_render].name = "radio_default"

\* The display_text calls of the render of this step pass a line only with
\* a content other than the one the driver holds for the line.
OnlyChangedLines(t) ==
    \A i \in 1..Len(RenderOf(t).calls) :
        RenderOf(t).calls[i].text # lines[RenderOf(t).calls[i].line]

\* The context's record of line i was reset, as a swap does it (show_screen,
\* an expiry, clear_display, the recovery of a failed frame).
TrackingReset(i) ==
    Get(context, IF i = 1 THEN "last_line1" ELSE "last_line2", Str(<<>>)) = Str(<<>>)

\* C23 as stated: in every update_display() frame, whichever screen is
\* rendered, a line is passed to the driver's display_text only if its
\* content differs from the content last forwarded for that line or the
\* context says that a full redraw is forced.
C23_EveryScreenForwardsChangedLines ==
    [][\A t \in Threads :
          RenderStep(t) =>
              \/ OnlyChangedLines(t)
              \/ Truthy(Get(context, "force_update", Bool(FALSE)))]_vars

\* C23 as the code has it: a frame of the default screen passes a line to
\* the driver only if its content differs from the content the driver holds
\* for that line or a swap has reset the context's record of the line, so
\* the second of two frames with the same content makes no display_text
\* call. (The timed screens pass both lines in every frame.)
C23_DefaultForwardsChangedLines ==
    [][\A t \in Threads :
          DefaultRenderStep(t) =>
              \A i \in 1..Len(RenderOf(t).calls) :
                  \/ RenderOf(t).calls[i].text # lines[RenderOf(t).calls[i].line]
                  \/ TrackingReset(RenderOf(t).calls[i].line)]_vars

\* The default screen is about to render a frame that equals the display:
\* the frame makes no display_text call.
C23_SameFrameAgain ==
    \E t \in Threads :
        /\ pc[t] = "ud_render"
        /\ local[t].screen_to_render = Default
        /\ lines[1] # <<>> /\ lines[2] # <<>>
        /\ RenderOf(t).calls = <<>>

\* --------------------------------------------------------------------- C24
\* The render of this step is a frame of the manager's default screen that
\* all driver calls got through, and it is the first one after a swap: the
\* driver was cleared and holds nothing, or the call is the first
\* update_display() after the expiry of a temporary screen.
FirstDefaultFrameAfterSwap(t) ==
    /\ RenderStep(t)
    /\ pc'[t] = "ud_react"
    /\ local[t].screen_to_render = Default
    /\ \/ lines = BlankLines
       \/ expiry.state = "claimed" /\ expiry.by = t

\* C24: the first frame of the default screen after show_screen with
\* clear_first, after the expiry of a temporary screen or after
\* clear_display() sends line 1 and line 2 to the driver, whatever the
\* default screen had sent before the swap.
C24_FullRedrawAfterSwap ==
    [][\A t \in Threads :
          FirstDefaultFrameAfterSwap(t) =>
              /\ Len(RenderOf(t).calls) = Height
              /\ \A i \in 1..Height :
                    /\ RenderOf(t).calls[i].line = i
                    /\ lines'[i] = RenderOf(t).calls[i].text
                    /\ lines'[i] # <<>>]_vars

\* The first update_display() call after an expiry has rendered the default
\* screen, and both lines are on the display again.
C24_RedrawnAfterExpiry ==
    \E t \in Threads :
        /\ pc[t] = "ud_react"
        /\ expiry.state = "claimed" /\ expiry.by = t
        /\ local[t].screen_to_render = Default
        /\ lines[1] # <<>> /\ lines[2] # <<>>
        /\ Get(context, "last_line1", Str(<<>>)) = Str(lines[1])
        /\ Get(context, "last_line2", Str(<<>>)) = Str(lines[2])

\* --------------------------------------------------------------------- C28
\* C28: while a marquee tracks a text longer than the width, its offset lies
\* between 0 and len(text) - width, and what it returned for that text is a
\* window of exactly width characters that lies inside the text.
C28_OffsetAndWindowInRange ==
    \A which \in {"song", "off"} :
        LET m == PhaseState(which, default_screen)
            last == Len(m.last) - Width
        IN  Len(m.last) > Width =>
              /\ 0 <= m.offset /\ m.offset <= last
              /\ marquee.which = which /\ marquee.text = m.last =>
                    /\ Len(marquee.content) = Width
                    /\ \E k \in 0..last : marquee.content = Window(m.last, k)

\* The banner stands at its last offset and its last window is what the
\* marquee returned: one more step would read past the end.
C28_BannerAtLastWindow ==
    /\ marquee.which = "off"
    /\ marquee.text = TxtOffMessage
    /\ default_screen.off_last_displayed_text = TxtOffMessage
    /\ default_screen.off_scroll_phase = "final_delay"
    /\ default_screen.off_marquee_scroll_offset = Len(TxtOffMessage) - Width
    /\ marquee.content = Window(TxtOffMessage, Len(TxtOffMessage) - Width)

\* --------------------------------------------------------------------- C29
\* manage_display with the radio going on and off: the loop passes the
\* application's state to update_context, renders the default screen and
\* sleeps; between two frames the radio may be switched and the song may
\* change.
RadioSongs == {TxtSeventeen, TxtLongSong}

\* update_context(is_playing=..., channel_name=..., current_song=...)
RadioPatch(is_playing, song) ==
    [is_playing |-> Bool(is_playing),
     channel_name |-> Str(TxtJazzFM),
     current_song |-> Str(song)]

NextRadio ==
    \/ \E is_playing \in BOOLEAN, song \in RadioSongs :
          UC_Enter("main", RadioPatch(is_playing, song))
    \/ UC_Merge("main")
    \/ UD_Enter("main")
    \/ UD_Pick("main")
    \/ UD_Render("main")
    \/ UD_React("main")
    \/ Sleep("main", Pause, MaxTimeRadio)

SpecRadio == Init /\ [][NextRadio]_vars

\* The radio is playing, as the context has it.
ContextPlaying == Truthy(Get(context, "is_playing", Bool(FALSE)))

\* C29: a render of the default screen while the radio is off leaves the
\* song marquee's offset, phase, timer and tracked text as they were, and a
\* render while the radio is playing leaves the banner marquee's.
C29_MarqueesIndependent ==
    [][\A t \in Threads :
          RenderStep(t) /\ local[t].screen_to_render = Default =>
             IF ContextPlaying
             THEN PhaseState("off", default_screen') = PhaseState("off", default_screen)
             ELSE PhaseState("song", default_screen') = PhaseState("song", default_screen)]_vars

\* The song marquee is two characters into its text, and the frame that was
\* just rendered, one of the radio being off, has started the banner: the
\* banner's state is new and the song's is the one of an earlier frame.
C29_BothUnderWay ==
    /\ pc["main"] = "ud_react"
    /\ local["main"].screen_to_render = Default
    /\ ~ContextPlaying
    /\ default_screen.last_displayed_song = TxtLongSong
    /\ default_screen.scroll_phase = "scrolling"
    /\ default_screen.marquee_scroll_offset = 2
    /\ default_screen.scroll_state_timer < now
    /\ default_screen.off_last_displayed_text = TxtOffMessage
    /\ default_screen.off_scroll_phase = "initial_delay"
    /\ default_screen.off_marquee_scroll_offset = 0
    /\ default_screen.off_scroll_state_timer = now

\* --------------------------------------------------------------------- C30
\* The keys the manager and the default screen keep in the context for
\* themselves; every other key is the application's.
ManagerKeys == {"force_update", "last_line1", "last_line2"}

\* The application's part of a context.
AppPart(ctx) == [k \in DOMAIN ctx \ ManagerKeys |-> ctx[k]]

\* C30 as stated: only the merge of update_context changes the context;
\* show_screen, update_display, clear_display and the renders leave every
\* key and value as it was.
C30_OnlyUpdateContextWrites ==
    [][context' # context => \E t \in Threads : MergeStep(t)]_vars

\* C30, amended: the application's keys and their values change only in
\* the merge of update_context; show_screen, update_display, clear_display
\* and the renders write no key but force_update, last_line1 and last_line2.
C30_OnlyUpdateContextWritesAppKeys ==
    [][AppPart(context') # AppPart(context) => \E t \in Threads : MergeStep(t)]_vars

\* The application has merged a value, a swap has set force_update, a frame
\* has reset it and the default screen's render has recorded both lines.
C30_ManagerKeysWritten ==
    /\ "volume_text" \in DOMAIN context
    /\ "force_update" \in DOMAIN context
    /\ context["force_update"] = Bool(FALSE)
    /\ context["last_line1"] # Str(<<>>)
    /\ context["last_line2"] # Str(<<>>)

\* --------------------------------------------------------------------- C27
\* The physical driver's calls, statement by statement, with the clock in
\* milliseconds. Only the calls that reach the hardware are followed: a
\* display_text that returns at the line test or at the cache touches
\* neither the hardware nor _last_operation_time.
MinDelay == 10        \* self._min_delay_between_operations = 0.01
ClearSettle == 50     \* clear: time.sleep(0.05)
ClearRecover == 100   \* clear, except: time.sleep(0.1)

allButBus ==
    <<now, pc, local, update_lock, screen_transition_in_progress,
      last_screen_change_time, current_screen, screens, default_screen,
      context, lines, first_render, expiry, lcd, marquee, installed,
      shutdown_requested, loops, radio>>

\* if time_since_last < self._min_delay_between_operations:
\*     time.sleep(self._min_delay_between_operations - time_since_last)
SleepFor(time_since_last) ==
    IF time_since_last < MinDelay THEN MinDelay - time_since_last ELSE 0

\* Where the driver goes on after a _safe_delay() returned.
AfterDelay(at) ==
    CASE at = "dt_pre" -> "dt_op"
      [] at = "dt_post" -> "idle"
      [] at = "dt_h_pre" -> "dt_h_op"
      [] at = "dt_h_post" -> "idle"
      [] at = "cl_pre" -> "cl_op"
      [] at = "cl_post" -> "cl_settle"

\* Where the driver goes on after a hardware operation returned or raised.
AfterOp(at, raises) ==
    CASE at = "dt_op" -> IF raises THEN "dt_h_pre" ELSE "dt_post"
      [] at = "dt_h_op" -> IF raises THEN "idle" ELSE "dt_h_post"
      [] at = "cl_op" -> IF raises THEN "cl_recover" ELSE "cl_post"

\* display_text(text, line) with a valid line and a text the cache does not
\* hold, or clear(): the call takes _display_lock and enters its try block.
T_Call(op) ==
    /\ bus.at = "idle"
    /\ bus.clock <= MaxClock
    /\ bus' = [bus EXCEPT !.at = IF op = "clear" THEN "cl_pre" ELSE "dt_pre"]
    /\ UNCHANGED allButBus

\* self._safe_delay(): sleeps for the rest of the minimum delay, then
\* self._last_operation_time = time.time()
T_SafeDelay ==
    /\ bus.at \in {"dt_pre", "dt_post", "dt_h_pre", "dt_h_post", "cl_pre", "cl_post"}
    /\ LET woken == bus.clock + SleepFor(bus.clock - bus.last_operation_time)
       IN  bus' = [bus EXCEPT !.clock = woken, !.last_operation_time = woken,
                              !.at = AfterDelay(bus.at)]
    /\ UNCHANGED allButBus

\* self.lcd.lcd_display_string(...) or self.lcd.lcd_clear(): the operation
\* reaches the hardware at the time of the clock, and returns or raises.
T_Op(raises) ==
    /\ bus.at \in {"dt_op", "dt_h_op", "cl_op"}
    /\ bus' = [bus EXCEPT !.at = AfterOp(bus.at, raises),
                          !.op_time = bus.clock,
                          !.op_raised = raises,
                          !.gap = IF bus.op_time = None THEN None
                                  ELSE bus.clock - bus.op_time]
    /\ UNCHANGED allButBus

\* clear: time.sleep(0.05) after the clear, time.sleep(0.1) in its handler
T_Sleep ==
    /\ bus.at \in {"cl_settle", "cl_recover"}
    /\ bus' = [bus EXCEPT !.clock = @ + (IF bus.at = "cl_settle" THEN ClearSettle
                                         ELSE ClearRecover),
                          !.at = "idle"]
    /\ UNCHANGED allButBus

\* Time passes between two statements: the thread is not the only one of
\* the process, and a hardware operation takes its time.
T_Pass ==
    /\ bus.clock + TimeStep <= MaxClock
    /\ bus' = [bus EXCEPT !.clock = @ + TimeStep]
    /\ UNCHANGED allButBus

NextTiming ==
    \/ \E op \in {"display_text", "clear"} : T_Call(op)
    \/ T_SafeDelay
    \/ \E raises \in BOOLEAN : T_Op(raises)
    \/ T_Sleep
    \/ T_Pass

SpecTiming == Init /\ [][NextTiming]_vars

\* C27: any two consecutive hardware operations of the physical driver
\* (lcd_clear or lcd_display_string, the blank write of the handler
\* included) are at least the minimum delay of 10 ms apart.
C27_OperationsApart == bus.gap # None => bus.gap >= MinDelay

\* --------------------------------------------------------------------- C33
\* The context's force_update flag is set.
Forced == Truthy(Get(context, "force_update", Bool(FALSE)))

\* C33: every render that update_display() invokes finds the force_update
\* flag false, and every line a render of the default screen forwards is a
\* line whose content differs from the record in last_line1/last_line2: no
\* line is redrawn because of the flag.
C33_NoRenderSeesForce ==
    [][\A t \in Threads :
          RenderStep(t) =>
             /\ ~Forced
             /\ DefaultRenderStep(t) =>
                   LET calls == RenderOf(t).calls
                   IN  \A i \in 1..Len(calls) :
                          LineChanged(context, TrackKey(calls[i].line), calls[i].text)]_vars

\* The frame that follows an expiry is about to render the default screen:
\* the expiry had set the flag and reset the records, and the frame has
\* reset the flag.
C33_FlagResetBeforeRender ==
    \E t \in Threads :
        /\ pc[t] = "ud_render"
        /\ local[t].screen_to_render = Default
        /\ expiry = [state |-> "claimed", by |-> t]
        /\ "force_update" \in DOMAIN context
        /\ context["force_update"] = Bool(FALSE)
        /\ context["last_line1"] = Str(<<>>)
        /\ context["last_line2"] = Str(<<>>)

\* --------------------------------------------------------------------- C34
\* C34: after any sequence of clear and display_text calls on the physical
\* driver, failing hardware writes included, the text the driver tracks for
\* each line is the text the hardware last received for that line (or empty
\* after a clear), so that a display_text whose normalized text differs from
\* what the hardware last received for the line is written, not suppressed.
C34_DifferentTextIsWritten ==
    [][DisplayTextStep /\ ValidLine(lcd'.call.line) =>
          /\ \A i \in 1..Height : lcd.current_lines[i] = lcd.last_sent[i]
                 => lcd'.current_lines[i] = lcd'.last_sent[i]
          /\ CleanText(lcd'.call.text) # lcd.last_sent[lcd'.call.line]
                 => lcd'.sent # <<>>]_vars

\* --------------------------------------------------------------------- C35
\* C35: a render that raises leaves the active-screen slot as it was, and so
\* does the handler of update_display(); the slot changes only in
\* show_screen, in clear_display and in the reaction to a render that
\* returned. A temporary screen whose render raises stays installed, however
\* long it has been shown.
C35_RaisingRenderKeepsSlot ==
    [][/\ \A t \in Threads :
             \/ RenderStep(t) /\ pc'[t] = "ud_except"
             \/ pc[t] = "ud_except"
             => current_screen' = current_screen
       /\ current_screen' # current_screen =>
             \E t \in Threads : InstallStep(t) \/ ClearStep(t) \/ ReactStep(t)]_vars

\* The timed screen is past its duration and still installed: the frame that
\* would have ended it raised, and the thread is in the handler.
C35_OverdueAndStillInstalled ==
    \E t \in Threads :
        /\ pc[t] = "ud_except"
        /\ current_screen = "s1"
        /\ local[t].screen_to_render = "s1"
        /\ ~Persists(screens["s1"])
        /\ screens["s1"].start_time # None
        /\ now - screens["s1"].start_time >= screens["s1"].display_duration

\* --------------------------------------------------------------------- C31
\* set_default_screen(screen): with self._update_lock
SD_Enter(t) ==
    /\ pc[t] = "idle"
    /\ LockFree(t)
    /\ update_lock' = t
    /\ pc' = [pc EXCEPT ![t] = "sd_set"]
    /\ expiry' = ExpiryAtCall(t, "set_default_screen")
    /\ UNCHANGED <<loops, radio, shutdown_requested, lcd, bus, marquee, installed, now, local,
                   screen_transition_in_progress, last_screen_change_time,
                   current_screen, screens, default_screen, context, lines,
                   first_render>>

\* self.default_screen = screen, a RadioDefaultScreen the caller has just
\* made; the lock is released.
SD_Set(t) ==
    /\ pc[t] = "sd_set"
    /\ default_screen' = RadioDefaultScreen(now)
    /\ update_lock' = "free"
    /\ pc' = [pc EXCEPT ![t] = "idle"]
    /\ UNCHANGED <<loops, radio, shutdown_requested, lcd, bus, marquee, installed, now, local,
                   screen_transition_in_progress, last_screen_change_time,
                   current_screen, screens, context, lines, first_render, expiry>>

\* time.sleep(self._min_screen_change_interval) of show_screen: the time of
\* the sleep passes.
SS_Sleep(t) ==
    /\ pc[t] = "ss_sleep"
    /\ now < local[t].wake
    /\ now' = local[t].wake
    /\ UNCHANGED <<loops, radio, shutdown_requested, lcd, bus, marquee, installed, pc, local,
                   update_lock, screen_transition_in_progress,
                   last_screen_change_time, current_screen, screens,
                   default_screen, context, lines, first_render, expiry>>

\* A rotation that runs inside the lock of update_display (told from the
\* code by C31).
RotationLock_Held(t, lock) == t

\* AdvancedDisplayManager.update_display handles the rotation before
\* super().update_display() takes the lock: the rotation holds no lock.
RotationLock(t, lock) == lock

\* AdvancedDisplayManager.update_display: the rotation is due and no
\* temporary screen is active; self.show_screen(next_screen, clear_first=True)
A_Rotate ==
    /\ loops["display"].at = "top"
    /\ pc["display"] = "idle"
    /\ current_screen = NoScreen
    /\ now < MaxTimeLocks
    /\ UNCHANGED radio
    /\ loops' = [loops EXCEPT !["display"].at = "rotate"]
    /\ update_lock' = RotationLock("display", update_lock)
    /\ UNCHANGED <<shutdown_requested, lcd, bus, marquee, installed, now, pc, local,
                   screen_transition_in_progress, last_screen_change_time,
                   current_screen, screens, default_screen, context, lines,
                   first_render, expiry>>

\* self.show_screen(next_screen, clear_first=True) takes the lock.
A_Show(s) ==
    /\ loops["display"].at = "rotate"
    /\ SS_Call("display", s, TRUE)
    /\ UNCHANGED radio
    /\ loops' = [loops EXCEPT !["display"].at = "rotated"]

\* show_screen raised: the exception leaves update_display.
A_Raised ==
    /\ loops["display"].at = "rotated"
    /\ pc["display"] = "ss_raised"
    /\ pc' = [pc EXCEPT !["display"] = "idle"]
    /\ local' = [local EXCEPT !["display"] = NoLocal]
    /\ UNCHANGED radio
    /\ loops' = [loops EXCEPT !["display"].at = "top"]
    /\ UNCHANGED <<shutdown_requested, lcd, bus, marquee, installed, now, update_lock,
                   screen_transition_in_progress, last_screen_change_time,
                   current_screen, screens, default_screen, context, lines,
                   first_render, expiry>>

\* super().update_display(), after the rotation or without one
A_Super ==
    /\ loops["display"].at \in {"top", "rotated"}
    /\ UD_Call("display") \/ UD_SkipCall("display")
    /\ UNCHANGED radio
    /\ loops' = [loops EXCEPT !["display"].at = "called"]

\* update_display returned to its caller.
A_Return ==
    /\ loops["display"].at = "called"
    /\ pc["display"] = "idle"
    /\ UNCHANGED radio
    /\ loops' = [loops EXCEPT !["display"].at = "top"]
    /\ UNCHANGED <<shutdown_requested, lcd, bus, marquee, installed, now, pc, local,
                   update_lock, screen_transition_in_progress,
                   last_screen_change_time, current_screen, screens,
                   default_screen, context, lines, first_render, expiry>>

\* The steps of a thread inside a call, once it has the lock or needs none,
\* but for the render.
Inside(t) ==
    \/ SS_Sleep(t)
    \/ SS_Wake(t)
    \/ SS_Install(t)
    \/ SS_ClearRaises(t)
    \/ UC_Merge(t)
    \/ SD_Set(t)
    \/ UD_Return(t)
    \/ UD_React(t)
    \/ UD_ReactClearRaises(t)
    \/ UD_Except(t)
    \/ UD_ExceptClearRaises(t)
    \/ CD_Clear(t)
    \/ CD_ClearRaises(t)

\* A thread that calls AdvancedDisplayManager.update_display again and again.
RotatingThread ==
    \/ A_Rotate
    \/ \E s \in ScreenIds : A_Show(s)
    \/ A_Raised
    \/ A_Super
    \/ A_Return
    \/ UD_Pick("display")
    \/ UD_Render("display")
    \/ \E k \in 1..Height : UD_RenderRaises("display", k)
    \/ Inside("display")

\* A thread that calls the five operations of the manager, in any order.
CallingThread ==
    \/ /\ now < MaxTimeLocks
       /\ \E s \in ScreenIds, cf \in BOOLEAN : SS_Enter("main", s, cf)
    \/ UC_Enter("main", VolumePatch)
    \/ CD_Enter("main")
    \/ SD_Enter("main")
    \/ UD_Enter("main")
    \/ UD_Skip("main")
    \/ UD_Pick("main")
    \/ UD_Render("main")
    \/ \E k \in 1..Height : UD_RenderRaises("main", k)
    \/ Inside("main")
    \/ Caught("main")

NextLocks == RotatingThread \/ CallingThread

SpecLocks == Init /\ [][NextLocks]_vars

\* The steps of a thread that wait for nothing: those inside a call and
\* those of the caller between two calls.
Proceeds(t) ==
    \/ Inside(t)
    \/ t = "main" /\ Caught("main")
    \/ t = "display" /\ (A_Super \/ A_Raised \/ A_Return)

\* The steps of a thread that has begun a call and waits for the lock.
Acquires(t) ==
    \/ UD_Pick(t)
    \/ t = "display" /\ \E s \in ScreenIds : A_Show(s)

\* Both threads are scheduled, and a thread that waits for the lock gets it
\* when it is free again and again.
LockFairness ==
    \A t \in Threads : WF_vars(Proceeds(t)) /\ SF_vars(Acquires(t))

LiveLocks == SpecLocks /\ LockFairness

\* The positions inside a with self._update_lock block.
InWith == Locked \cup {"sd_set"}

\* A render, the screen's own code, takes no lock of the manager and ends.
RendersEnd == \A t \in Threads : []<>(pc[t] # "ud_render")

\* C31: the thread that holds the manager's lock is inside a with block and
\* at a statement that takes no manager lock, and no thread waits for the
\* lock while it holds it; the driver is written and cleared only by the
\* holder of the manager's lock; every call that waits for the lock gets it,
\* and every call returns.
C31_NoDeadlock ==
    /\ [](\A t \in Threads : update_lock = t <=> pc[t] \in InWith)
    /\ [](loops["display"].at = "rotate" => update_lock # "display")
    /\ [][lines' # lines =>
             \E t \in Threads : update_lock = t /\ pc'[t] # pc[t]]_vars
    /\ RendersEnd =>
          /\ \A t \in Threads : pc[t] # "idle" ~> pc[t] = "idle"
          /\ loops["display"].at # "top" ~> loops["display"].at = "top"

\* The rotating thread waits for the lock in super().update_display() after
\* its rotation installed a screen, while the other thread holds the lock in
\* clear_display.
C31_WaitsBehindOtherCall ==
    /\ loops["display"].at = "called"
    /\ pc["display"] = "ud_acquire"
    /\ current_screen # NoScreen
    /\ update_lock = "main"
    /\ pc["main"] = "cd_clear"


\* ------------------------------------------- the persisted channel index
\* Every variable but the client.
allButRadio ==
    <<now, pc, local, update_lock, screen_transition_in_progress,
      last_screen_change_time, current_screen, screens, default_screen,
      context, lines, first_render, expiry, lcd, bus, marquee, installed,
      shutdown_requested, loops>>

\* The texts a persistence file holds: up to MaxFileLen characters out of
\* two digits, the sign, a blank, a newline and a letter.
FileChars == {"0", "7", "-", " ", "\n", "x"}
FileTexts == UNION {[1..n -> FileChars] : n \in 0..MaxFileLen}
Files ==
    {[kind |-> k, text |-> <<>>] :
        k \in {"missing", "denied", "directory", "io_error", "undecodable"}}
    \cup {[kind |-> "text", text |-> s] : s \in FileTexts}

Digits == {"0", "7"}
DigitValue(c) == IF c = "7" THEN 7 ELSE 0

\* the value of a string of digits
RECURSIVE Decimal(_)
Decimal(s) ==
    IF s = <<>> THEN 0
    ELSE 10 * Decimal(SubSeq(s, 1, Len(s) - 1)) + DigitValue(s[Len(s)])

\* int(text): blanks around an optional sign and at least one digit, or a
\* ValueError.
IntOf(text) ==
    LET s == Strip(text)
        negative == s # <<>> /\ Head(s) = "-"
        digits == IF negative THEN Tail(s) ELSE s
    IN  IF digits # <<>> /\ \A i \in 1..Len(digits) : digits[i] \in Digits
        THEN [raised |-> "no",
              value |-> IF negative THEN 0 - Decimal(digits) ELSE Decimal(digits)]
        ELSE [raised |-> "ValueError", value |-> 0]

\* with open(self.persistence_file, 'r') as f: int(f.read().strip())
\* The exception open(), f.read() or int() raises, or the integer.
ReadChannel(file) ==
    CASE file.kind = "missing" -> [raised |-> "FileNotFoundError", value |-> 0]
      [] file.kind = "denied" -> [raised |-> "PermissionError", value |-> 0]
      [] file.kind = "directory" -> [raised |-> "IsADirectoryError", value |-> 0]
      [] file.kind = "io_error" -> [raised |-> "OSError", value |-> 0]
      [] file.kind = "undecodable" -> [raised |-> "UnicodeDecodeError", value |-> 0]
      [] file.kind = "text" -> IntOf(Strip(file.text))

\* except (FileNotFoundError, ValueError): UnicodeDecodeError is a ValueError.
LoadCatches(exception) ==
    exception \in {"FileNotFoundError", "ValueError", "UnicodeDecodeError"}

\* PlexRadioClient._load_last_channel, the last statement of __init__
load_last_channel(r) ==
    LET read == ReadChannel(r.file)
    IN  IF read.raised = "no"
        THEN [r EXCEPT !.current_channel = read.value, !.load = "loaded"]
        ELSE IF LoadCatches(read.raised)
        THEN [r EXCEPT !.current_channel = 0, !.load = "defaulted"]
        ELSE [r EXCEPT !.load = "raised"]

\* radio = PlexRadioClient(): the construction ends.
Construct ==
    /\ radio.load = "new"
    /\ radio' = load_last_channel(radio)
    /\ UNCHANGED allButRadio

InitLoad ==
    /\ DisplayManagerInit
    /\ installed = NoInstall
    /\ screens = [s \in ScreenIds |-> VolumeScreen(ShortDuration)]
    /\ radio \in {PlexRadioClient(file) : file \in Files}

NextLoad == Construct

SpecLoad == InitLoad /\ [][NextLoad]_vars

\* The load failed: the file gave no integer.
LoadFailed == ReadChannel(radio.file).raised # "no"

\* C32: loading the persisted channel index yields 0 on any failure (file
\* missing, unreadable, permission or other I/O error, non-integer content)
\* and never raises out of the client's construction.
C32_LoadDefaultsOnAnyFailure ==
    /\ radio.load # "raised"
    /\ radio.load # "new" /\ LoadFailed =>
          radio.load = "defaulted" /\ radio.current_channel = 0


\* ------------------------------------------------ the client's callbacks
TxtRock == <<"R", "o", "c", "k", " ">>

\* self.channels[c].get('name', ...)
ChannelName(c) == IF c = 0 THEN TxtJazzFM ELSE TxtRock \o <<Digit(c)>>

\* f"{song_info.get('artist')} - {song_info.get('title')}"
SongTitle(song) == <<"S", "o", "n", "g", " ">> \o <<Digit(song.channel), Digit(song.n)>>

\* get_current_volume(): the percentage pactl prints
VolumeText(volume) == TwoDigits(volume) \o <<"%">>

\* The main thread is at position p of a callback and in no manager call.
MainAt(p) == radio.main = p /\ pc["main"] = "idle"

\* toggle_power(): the test of is_playing; off: self.is_playing = False;
\* on: set_volume(DEFAULT_STARTUP_VOLUME)
M_Toggle ==
    /\ MainAt("idle")
    /\ now < MaxTimeClient
    /\ radio' = IF radio.is_playing
                THEN [radio EXCEPT !.is_playing = FALSE, !.main = "off_stop"]
                ELSE [radio EXCEPT !.volume = StartupVolume, !.main = "on_clear"]
    /\ UNCHANGED allButRadio

\* toggle_power(), off: self.stop_current_playback()
M_OffStop ==
    /\ MainAt("off_stop")
    /\ radio' = [radio EXCEPT !.current_process = NoSong, !.main = "off_title"]
    /\ UNCHANGED allButRadio

\* toggle_power(), off: self.last_song_title = None
M_OffTitle ==
    /\ MainAt("off_title")
    /\ radio' = [radio EXCEPT !.last_song_title = NoSong, !.main = "off_clear"]
    /\ UNCHANGED allButRadio

\* toggle_power(), off: self.display.clear_display()
M_OffClear ==
    /\ MainAt("off_clear")
    /\ CD_Call("main")
    /\ radio' = [radio EXCEPT !.main = "return"]
    /\ UNCHANGED loops

\* toggle_power(), on: self.display.clear_display()
M_OnClear ==
    /\ MainAt("on_clear")
    /\ CD_Call("main")
    /\ radio' = [radio EXCEPT !.main = "on_channels"]
    /\ UNCHANGED loops

\* toggle_power(), on: if not self.channels: get_channels() gives None (no
\* connection), an empty list or the channels.
M_OnChannels(result) ==
    /\ MainAt("on_channels")
    /\ radio' = IF radio.channels # 0 THEN [radio EXCEPT !.main = "on_playing"]
                ELSE IF result = "channels"
                THEN [radio EXCEPT !.channels = NumChannels, !.main = "on_playing"]
                ELSE [radio EXCEPT !.main = "on_error"]
    /\ UNCHANGED allButRadio

\* toggle_power(), on: self.display.show_screen(error_screen); return. The
\* screen "s2" stands for both ErrorScreen("Server Not Found") and
\* ErrorScreen("No Channels").
M_OnError ==
    /\ MainAt("on_error")
    /\ SS_Call("main", "s2", TRUE)
    /\ radio' = [radio EXCEPT !.main = "return"]
    /\ UNCHANGED loops

\* toggle_power(), on: self.is_playing = True
M_OnPlaying ==
    /\ MainAt("on_playing")
    /\ radio' = [radio EXCEPT !.is_playing = TRUE, !.main = "on_flag"]
    /\ UNCHANGED allButRadio

\* toggle_power(), on: self.channel_has_changed = True
M_OnFlag ==
    /\ MainAt("on_flag")
    /\ radio' = [radio EXCEPT !.channel_has_changed = TRUE, !.main = "on_shown"]
    /\ UNCHANGED allButRadio

\* toggle_power(), on: the last self.display.clear_display()
M_OnShown ==
    /\ MainAt("on_shown")
    /\ CD_Call("main")
    /\ radio' = [radio EXCEPT !.main = "return"]
    /\ UNCHANGED loops

\* change_channel(direction): the test of is_playing and channels;
\* self.stop_current_playback()
M_Change(direction) ==
    /\ MainAt("idle")
    /\ now < MaxTimeClient
    /\ radio.is_playing
    /\ radio.channels # 0
    /\ radio' = [radio EXCEPT !.current_process = NoSong, !.direction = direction,
                              !.main = "ch_title"]
    /\ UNCHANGED allButRadio

\* change_channel: self.last_song_title = None
M_ChTitle ==
    /\ MainAt("ch_title")
    /\ radio' = [radio EXCEPT !.last_song_title = NoSong, !.main = "ch_channel"]
    /\ UNCHANGED allButRadio

\* (self.current_channel + direction) % num_channels
NextChannel(current_channel, direction, num_channels) ==
    (current_channel + direction + num_channels) % num_channels

\* change_channel: self.current_channel = ...; self._save_last_channel(),
\* which writes the file or catches the IOError of a failed write.
M_ChChannel(saved) ==
    /\ MainAt("ch_channel")
    /\ LET c == NextChannel(radio.current_channel, radio.direction, radio.channels)
       IN  radio' = [radio EXCEPT
                        !.current_channel = c,
                        !.file = IF saved THEN [kind |-> "text", text |-> <<Digit(c)>>]
                                 ELSE @,
                        !.main = "ch_flag"]
    /\ UNCHANGED allButRadio

\* change_channel: self.channel_has_changed = True
M_ChFlag ==
    /\ MainAt("ch_flag")
    /\ radio' = [radio EXCEPT !.channel_has_changed = TRUE,
                              !.signalled = radio.current_channel, !.main = "ch_show"]
    /\ UNCHANGED allButRadio

\* change_channel: self.display.show_screen(channel_screen)
M_ChShow ==
    /\ MainAt("ch_show")
    /\ SS_Call("main", "s1", TRUE)
    /\ radio' = [radio EXCEPT !.main = "ch_update"]
    /\ UNCHANGED loops

\* change_channel: self.display.update_context(channel_text=channel_name)
M_ChUpdate ==
    /\ MainAt("ch_update")
    /\ UC_Call("main", [channel_text |-> Str(ChannelName(radio.current_channel))])
    /\ radio' = [radio EXCEPT !.main = "return"]
    /\ UNCHANGED loops

\* The callback's last call has returned: the callback returns.
M_Return ==
    /\ MainAt("return")
    /\ radio' = [radio EXCEPT !.main = "idle", !.direction = 0]
    /\ UNCHANGED allButRadio

\* An exception left a manager call: it leaves the callback.
M_Raised ==
    /\ radio.main # "idle"
    /\ pc["main"] \in {"ss_raised", "cd_raised"}
    /\ pc' = [pc EXCEPT !["main"] = "idle"]
    /\ local' = [local EXCEPT !["main"] = NoLocal]
    /\ radio' = [radio EXCEPT !.main = "idle", !.direction = 0]
    /\ UNCHANGED <<loops, shutdown_requested, lcd, bus, marquee, installed, now, update_lock,
                   screen_transition_in_progress, last_screen_change_time,
                   current_screen, screens, default_screen, context, lines,
                   first_render, expiry>>

\* ------------------------------------------------------- manage_playback
\* if radio_client.is_playing:
MP_Top ==
    /\ radio.playback = "top"
    /\ radio.is_playing
    /\ radio' = [radio EXCEPT !.playback = "poll"]
    /\ UNCHANGED allButRadio

\* if current_process and current_process.poll() is not None:
\*     last_song_title = None
MP_Poll(finished) ==
    /\ radio.playback = "poll"
    /\ radio' = [radio EXCEPT
                    !.last_song_title =
                        IF radio.current_process # NoSong /\ finished THEN NoSong ELSE @,
                    !.playback = "request"]
    /\ UNCHANGED allButRadio

\* get_current_song(radio_client.current_channel): the request is sent
MP_Request ==
    /\ radio.playback = "request"
    /\ radio' = [radio EXCEPT !.channel_index = radio.current_channel,
                              !.playback = "fetching"]
    /\ UNCHANGED allButRadio

\* get_current_song returns: None (n = 0) or a song of the channel asked for
MP_Response(n) ==
    /\ radio.playback = "fetching"
    /\ radio' = [radio EXCEPT
                    !.song_info = IF n = 0 THEN NoSong
                                  ELSE [channel |-> radio.channel_index, n |-> n],
                    !.playback = "test"]
    /\ UNCHANGED allButRadio

\* if song_info: if current_title != last_song_title or channel_has_changed:
\* else time.sleep(10) and the top of the loop
MP_Test ==
    /\ radio.playback = "test"
    /\ radio' = IF /\ radio.song_info # NoSong
                   /\ \/ radio.song_info # radio.last_song_title
                      \/ radio.channel_has_changed
                THEN [radio EXCEPT !.playback = "stop"]
                ELSE [radio EXCEPT !.playback = "top", !.channel_index = None,
                                   !.song_info = NoSong]
    /\ UNCHANGED allButRadio

\* play_song: self.stop_current_playback()
MP_Stop ==
    /\ radio.playback = "stop"
    /\ radio' = [radio EXCEPT !.current_process = NoSong, !.playback = "popen"]
    /\ UNCHANGED allButRadio

\* play_song: self.current_process = subprocess.Popen(cmd)
MP_Popen ==
    /\ radio.playback = "popen"
    /\ radio' = [radio EXCEPT !.current_process = radio.song_info, !.playback = "title"]
    /\ UNCHANGED allButRadio

\* radio_client.last_song_title = current_title
MP_Title ==
    /\ radio.playback = "title"
    /\ radio' = [radio EXCEPT !.last_song_title = radio.song_info, !.playback = "flag"]
    /\ UNCHANGED allButRadio

\* radio_client.channel_has_changed = False; time.sleep(10)
MP_Flag ==
    /\ radio.playback = "flag"
    /\ radio' = [radio EXCEPT !.channel_has_changed = FALSE, !.playback = "top",
                              !.channel_index = None, !.song_info = NoSong,
                              !.signalled = None]
    /\ UNCHANGED allButRadio

\* The client after its construction without a persistence file; the
\* application's screens are the ChannelScreen and an ErrorScreen.
InitPlayback ==
    /\ DisplayManagerInit
    /\ installed = NoInstall
    /\ screens = [s \in ScreenIds |->
                    IF s = "s1" THEN ChannelScreen(DefaultDuration)
                    ELSE ErrorScreen(TxtNoChannels, ErrorDuration, FALSE)]
    /\ radio = load_last_channel(NoRadio)

\* The power and channel buttons on the main thread and manage_playback.
NextPlayback ==
    \/ M_Toggle
    \/ M_OffStop
    \/ M_OffTitle
    \/ M_OffClear
    \/ M_OnClear
    \/ \E result \in {"none", "empty", "channels"} : M_OnChannels(result)
    \/ M_OnError
    \/ M_OnPlaying
    \/ M_OnFlag
    \/ M_OnShown
    \/ \E direction \in {-1, 1} : M_Change(direction)
    \/ M_ChTitle
    \/ \E saved \in BOOLEAN : M_ChChannel(saved)
    \/ M_ChFlag
    \/ M_ChShow
    \/ M_ChUpdate
    \/ M_Return
    \/ M_Raised
    \/ SS_Sleep("main")
    \/ SS_Wake("main")
    \/ SS_Install("main")
    \/ SS_ClearRaises("main")
    \/ UC_Merge("main")
    \/ CD_Clear("main")
    \/ CD_ClearRaises("main")
    \/ MP_Top
    \/ \E finished \in BOOLEAN : MP_Poll(finished)
    \/ MP_Request
    \/ \E n \in 0..NumSongs : MP_Response(n)
    \/ MP_Test
    \/ MP_Stop
    \/ MP_Popen
    \/ MP_Title
    \/ MP_Flag

SpecPlayback == InitPlayback /\ [][NextPlayback]_vars

\* ---------------------------------------------------------------------- C37
\* toggle_power() has turned the radio off and returned, and the radio has
\* not been turned on since.
PoweredOff ==
    /\ ~radio.is_playing
    /\ radio.main \notin {"off_stop", "off_title", "off_clear", "return"}

\* C37: once toggle_power has turned the radio off (is_playing false,
\* playback stopped) and returned, no audio player process is running until
\* the radio is turned on again.
C37_NoPlayerWhileOff == PoweredOff => radio.current_process = NoSong

\* ---------------------------------------------------------------------- C38
\* change_channel has set channel_has_changed and the flag is still set.
ChangeSignalled == radio.channel_has_changed /\ radio.signalled # None

\* C38: after change_channel sets channel_has_changed, the playback thread
\* starts a player, and clears the flag, only with a song that was fetched
\* for the new current channel.
C38_FlagConsumedByNewChannel ==
    [][/\ (ChangeSignalled /\ radio.playback = "popen" /\ radio'.playback = "title") =>
              radio.song_info.channel = radio.current_channel
       /\ (ChangeSignalled /\ radio.playback = "flag" /\ radio'.playback = "top") =>
              radio.song_info.channel = radio.current_channel]_vars


\* ------------------------------------- the callbacks and the display thread
\* adjust_volume(direction, radio_client): pactl set-sink-volume +5% or -5%
M_Volume(direction) ==
    /\ MainAt("idle")
    /\ now < MaxTimeClient
    /\ radio.volume + 5 * direction >= BootVolume - 5 * VolumeSteps
    /\ radio.volume + 5 * direction <= BootVolume + 5 * VolumeSteps
    /\ radio' = [radio EXCEPT !.volume = @ + 5 * direction, !.direction = direction,
                              !.main = "vol_show"]
    /\ UNCHANGED allButRadio

\* adjust_volume: radio_client.display.show_screen(volume_screen)
M_VolShow ==
    /\ MainAt("vol_show")
    /\ SS_Call("main", "s2", TRUE)
    /\ radio' = [radio EXCEPT !.main = "vol_update"]
    /\ UNCHANGED loops

\* adjust_volume: radio_client.display.update_context(volume_text=get_current_volume())
M_VolUpdate ==
    /\ MainAt("vol_update")
    /\ UC_Call("main", [volume_text |-> Str(VolumeText(radio.volume))])
    /\ radio' = [radio EXCEPT !.main = "return"]
    /\ UNCHANGED loops

\* get_current_channel_name()
get_current_channel_name(r) ==
    IF r.channels # 0 /\ 0 <= r.current_channel /\ r.current_channel < r.channels
    THEN ChannelName(r.current_channel)
    ELSE TxtRadio

\* manage_display: update_context(is_playing=..., channel_name=...,
\* current_song=radio_client.last_song_title or "Loading...")
ClientPatch(r) ==
    [is_playing |-> Bool(r.is_playing),
     channel_name |-> Str(get_current_channel_name(r)),
     current_song |-> Str(IF r.last_song_title = NoSong THEN TxtLoading
                          ELSE SongTitle(r.last_song_title))]

\* The radio is on with its channels loaded; the application's screens are
\* the ChannelScreen and the VolumeScreen with the classes' durations.
InitChannel ==
    /\ DisplayManagerInit
    /\ installed = NoInstall
    /\ screens = [s \in ScreenIds |->
                    IF s = "s1" THEN ChannelScreen(DefaultDuration)
                    ELSE VolumeScreen(DefaultDuration)]
    /\ radio = [load_last_channel(NoRadio) EXCEPT
                   !.channels = NumChannels, !.is_playing = TRUE]

\* The channel and volume buttons on the main thread and manage_display.
NextChannelScreen ==
    \/ \E direction \in {-1, 1} : M_Change(direction)
    \/ M_ChTitle
    \/ \E saved \in BOOLEAN : M_ChChannel(saved)
    \/ M_ChFlag
    \/ M_ChShow
    \/ M_ChUpdate
    \/ \E direction \in {-1, 1} : M_Volume(direction)
    \/ M_VolShow
    \/ M_VolUpdate
    \/ M_Return
    \/ M_Raised
    \/ SS_Sleep("main")
    \/ SS_Wake("main")
    \/ SS_Install("main")
    \/ SS_ClearRaises("main")
    \/ UC_Merge("main")
    \/ UC_Enter("display", ClientPatch(radio))
    \/ UC_Merge("display")
    \/ UD_Skip("display")
    \/ UD_Enter("display")
    \/ UD_Pick("display")
    \/ UD_Render("display")
    \/ UD_React("display")
    \/ UD_Return("display")

SpecChannel == InitChannel /\ [][NextChannelScreen]_vars

\* ---------------------------------------------------------------------- C36
\* A line of the display with the text centred.
CenteredLine(text) == Ljust(Center(text, Width), Width)

\* The callback on the main thread is not on its way to its show_screen().
ChannelShown == radio.main \notin {"ch_title", "ch_channel", "ch_flag", "ch_show"}
VolumeShown == radio.main # "vol_show"

\* C36: after a channel change (volume change) has installed a ChannelScreen
\* (VolumeScreen), every render of that screen puts the selected channel's
\* name (the current volume) on line 2, never the placeholder or the value
\* of the change before.
C36_ScreenShowsNewValue ==
    [][\A t \in Threads :
          RenderStep(t) =>
              /\ (local[t].screen_to_render = "s1" /\ ChannelShown) =>
                    lines'[2] = CenteredLine(ChannelName(radio.current_channel))
              /\ (local[t].screen_to_render = "s2" /\ VolumeShown) =>
                    lines'[2] = CenteredLine(VolumeText(radio.volume))]_vars


\* ------------------------------------------------- the start of the program
TxtFfplayMissing ==
    <<"f", "f", "p", "l", "a", "y", " ", "m", "i", "s", "s", "i", "n", "g">>

\* The persistence files of the start: the failing ones and the texts of at
\* most one character.
StartupFiles == {file \in Files : Len(file.text) <= 1}

\* plex_radio = PlexRadioClient() raised: the finally block finds plex_radio
\* None, and the program ends.
ST_NoClient ==
    /\ radio.main = "construct"
    /\ radio.load = "raised"
    /\ radio' = [radio EXCEPT !.main = "ended"]
    /\ UNCHANGED allButRadio

\* if not plex_radio.check_ffplay_available(): with ffplay the handlers are
\* assigned, the two threads are started and the main thread waits.
ST_Check(available) ==
    /\ MainAt("construct")
    /\ radio.load \in {"loaded", "defaulted"}
    /\ radio' = [radio EXCEPT !.ffplay = IF available THEN "found" ELSE "missing",
                              !.main = IF available THEN "running" ELSE "ffplay_show"]
    /\ UNCHANGED allButRadio

\* error_screen = ErrorScreen("ffplay missing", persistent=True);
\* plex_radio.display.show_screen(error_screen)
ST_Show ==
    /\ MainAt("ffplay_show")
    /\ SS_Call("main", "s2", TRUE)
    /\ radio' = [radio EXCEPT !.main = "ffplay_sleep"]
    /\ UNCHANGED loops

\* The driver's clear raised in show_screen: the exception enters the
\* finally block.
ST_Raised ==
    /\ radio.main = "ffplay_sleep"
    /\ pc["main"] = "ss_raised"
    /\ pc' = [pc EXCEPT !["main"] = "idle"]
    /\ local' = [local EXCEPT !["main"] = NoLocal]
    /\ radio' = [radio EXCEPT !.main = "finally"]
    /\ UNCHANGED <<loops, shutdown_requested, lcd, bus, marquee, installed, now,
                   update_lock, screen_transition_in_progress,
                   last_screen_change_time, current_screen, screens,
                   default_screen, context, lines, first_render, expiry>>

\* time.sleep(5)
ST_Sleep ==
    /\ MainAt("ffplay_sleep")
    /\ local' = [local EXCEPT !["main"].wake = now + StartupSleep]
    /\ radio' = [radio EXCEPT !.main = "ffplay_wait"]
    /\ UNCHANGED <<loops, shutdown_requested, lcd, bus, marquee, installed, now, pc,
                   update_lock, screen_transition_in_progress,
                   last_screen_change_time, current_screen, screens,
                   default_screen, context, lines, first_render, expiry>>

\* The sleep is over: exit() raises SystemExit, which enters the finally block.
ST_Exit ==
    /\ MainAt("ffplay_wait")
    /\ now >= local["main"].wake
    /\ local' = [local EXCEPT !["main"] = NoLocal]
    /\ radio' = [radio EXCEPT !.main = "finally"]
    /\ UNCHANGED <<loops, shutdown_requested, lcd, bus, marquee, installed, now, pc,
                   update_lock, screen_transition_in_progress,
                   last_screen_change_time, current_screen, screens,
                   default_screen, context, lines, first_render, expiry>>

\* KeyboardInterrupt while the main thread waits: the finally block.
ST_Interrupt ==
    /\ MainAt("running")
    /\ radio' = [radio EXCEPT !.main = "finally"]
    /\ UNCHANGED allButRadio

\* finally: if plex_radio: plex_radio.shutdown_requested = True; time.sleep(0.5)
ST_Finally ==
    /\ radio.main = "finally"
    /\ TD_Request

\* The program from plex_radio = PlexRadioClient() on; the application's
\* screens are a ChannelScreen and the persistent ErrorScreen of the missing
\* player.
InitStartup ==
    /\ DisplayManagerInit
    /\ installed = NoInstall
    /\ screens = [s \in ScreenIds |->
                    IF s = "s1" THEN ChannelScreen(DefaultDuration)
                    ELSE ErrorScreen(TxtFfplayMissing, ErrorDuration, TRUE)]
    /\ radio \in {[PlexRadioClient(file) EXCEPT !.main = "construct"] :
                     file \in StartupFiles}

\* The main thread up to the start of the two threads (whose loops are the
\* subject of SpecTeardown) and through the finally block.
NextStartup ==
    \/ Construct
    \/ ST_NoClient
    \/ \E available \in BOOLEAN : ST_Check(available)
    \/ ST_Show
    \/ SS_Install("main")
    \/ SS_ClearRaises("main")
    \/ ST_Raised
    \/ ST_Sleep
    \/ ST_Exit
    \/ ST_Interrupt
    \/ ST_Finally
    \/ TD_Wake
    \/ TD_Goodbye
    \/ TD_Exit
    \/ Tick(MaxTimeStartup)

SpecStartup == InitStartup /\ [][NextStartup]_vars

\* ---------------------------------------------------------------------- C39
\* C39: when the audio player executable is missing at startup, the
\* persistent error screen "ffplay missing" has been rendered to the driver
\* by an update_display() call by the time the process, which installed it,
\* has left the finally block and ends.
C39_ErrorScreenRendered ==
    (radio.ffplay = "missing" /\ current_screen = "s2" /\ pc["main"] = "exited") =>
        /\ first_render["s2"] # None
        /\ lines # BlankLines

====
